---- MODULE Spec2Model ----
(***************************************************************************)
(* NSocial member directory: the DataLoader (fetch + profile normalizer)   *)
(* and the SearchEngine (held filters, search, ranking, recommendations).  *)
(*                                                                         *)
(* Representation.  A JavaScript string is a sequence of one-character     *)
(* strings, so that substring search, splitting, trimming, lower-casing    *)
(* and edit distance are computed as the code computes them.  An object is *)
(* a function from field names to values; a field the object does not have *)
(* is a name outside DOMAIN.  A nullable collection is <<>> for null and   *)
(* <<v>> for the value v.                                                   *)
(***************************************************************************)
EXTENDS Integers, Sequences, FiniteSets, TLC

\* ------------------------------------------------------------------ bounds
MaxMembers == 2     \* longest raw collection the fetch may answer with
MaxCount == 1       \* largest count / limit argument of a query
MaxLimit == 2       \* largest limit of getTrendingTags over the tag collections
MaxFetches == 2     \* fetches in flight beyond which no further loadData call is made

\* ------------------------------------------------------- JavaScript values
\* null / undefined where a string is expected ("null" is not one character,
\* so the value differs from every string)
Null == <<"null">>

\* {...a, ...b}
Spread(a, b) ==
    [k \in (DOMAIN a) \cup (DOMAIN b) |-> IF k \in DOMAIN b THEN b[k] ELSE a[k]]

\* obj.field is truthy (present and not the empty string)
Truthy(obj, field) == field \in DOMAIN obj /\ obj[field] # <<>> /\ obj[field] # Null

Min2(a, b) == IF a <= b THEN a ELSE b
Max2(a, b) == IF a >= b THEN a ELSE b

\* ----------------------------------------------------------------- strings
UpperChars == <<"A","B","C","D","E","F","G","H","I","J","K","L","M",
                "N","O","P","Q","R","S","T","U","V","W","X","Y","Z">>
LowerChars == <<"a","b","c","d","e","f","g","h","i","j","k","l","m",
                "n","o","p","q","r","s","t","u","v","w","x","y","z">>
Digits == {"0","1","2","3","4","5","6","7","8","9"}

UpperToLower ==
    [A |-> "a", B |-> "b", C |-> "c", D |-> "d", E |-> "e", F |-> "f", G |-> "g",
     H |-> "h", I |-> "i", J |-> "j", K |-> "k", L |-> "l", M |-> "m", N |-> "n",
     O |-> "o", P |-> "p", Q |-> "q", R |-> "r", S |-> "s", T |-> "t", U |-> "u",
     V |-> "v", W |-> "w", X |-> "x", Y |-> "y", Z |-> "z"]

LowerChar(c) == IF c \in DOMAIN UpperToLower THEN UpperToLower[c] ELSE c

\* String.prototype.toLowerCase
ToLowerCase(s) == [i \in 1..Len(s) |-> LowerChar(s[i])]

\* \s and \w of a regular expression
IsSpace(c) == c \in {" ", "\t", "\n", "\r"}
IsWordChar(c) ==
    \/ \E i \in 1..26 : UpperChars[i] = c \/ LowerChars[i] = c
    \/ c \in Digits
    \/ c = "_"

\* s.startsWith(t, pos)  (pos is 1-based here)
MatchesAt(s, t, pos) ==
    /\ pos + Len(t) - 1 <= Len(s)
    /\ SubSeq(s, pos, pos + Len(t) - 1) = t

\* String.prototype.includes
Includes(s, t) == \E pos \in 1..(Len(s) - Len(t) + 1) : MatchesAt(s, t, pos)

\* String.prototype.trim
RECURSIVE TrimStart(_)
TrimStart(s) == IF s # <<>> /\ IsSpace(Head(s)) THEN TrimStart(Tail(s)) ELSE s
RECURSIVE TrimEnd(_)
TrimEnd(s) ==
    IF s # <<>> /\ IsSpace(s[Len(s)]) THEN TrimEnd(SubSeq(s, 1, Len(s) - 1)) ELSE s
Trim(s) == TrimEnd(TrimStart(s))

\* String.prototype.split(' '): the pieces between single spaces, empty
\* pieces included
RECURSIVE SplitFrom(_, _, _)
SplitFrom(s, pos, cur) ==
    IF pos > Len(s) THEN <<cur>>
    ELSE IF s[pos] = " " THEN <<cur>> \o SplitFrom(s, pos + 1, <<>>)
    ELSE SplitFrom(s, pos + 1, Append(cur, s[pos]))
Split(s) == SplitFrom(s, 1, <<>>)

\* Array.prototype.join(' ')
RECURSIVE Join(_)
Join(parts) ==
    IF parts = <<>> THEN <<>>
    ELSE IF Len(parts) = 1 THEN parts[1]
    ELSE parts[1] \o <<" ">> \o Join(Tail(parts))

\* s.replace(/pat/g, rep) for a literal pattern pat
RECURSIVE ReplaceAll(_, _, _)
ReplaceAll(s, pat, rep) ==
    IF s = <<>> THEN <<>>
    ELSE IF MatchesAt(s, pat, 1)
         THEN rep \o ReplaceAll(SubSeq(s, Len(pat) + 1, Len(s)), pat, rep)
         ELSE <<Head(s)>> \o ReplaceAll(Tail(s), pat, rep)

\* s.replace(/\s+/g, ' ')
RECURSIVE CollapseSpaces(_)
CollapseSpaces(s) ==
    IF s = <<>> THEN <<>>
    ELSE IF IsSpace(Head(s))
         THEN <<" ">> \o CollapseSpaces(TrimStart(s))
         ELSE <<Head(s)>> \o CollapseSpaces(Tail(s))

\* Array.prototype.filter: the indices kept, in order, then the elements
RECURSIVE KeptIndices(_, _)
KeptIndices(n, flags) ==
    IF n = 0 THEN <<>>
    ELSE KeptIndices(n - 1, flags) \o (IF flags[n] THEN <<n>> ELSE <<>>)
Filter(seq, Keep(_)) ==
    LET idx == KeptIndices(Len(seq), [i \in 1..Len(seq) |-> Keep(seq[i])])
    IN  [j \in 1..Len(idx) |-> seq[idx[j]]]

\* [...new Set(seq)]: first occurrences, in order
RECURSIVE Dedup(_)
Dedup(seq) ==
    IF seq = <<>> THEN <<>>
    ELSE LET init == Dedup(SubSeq(seq, 1, Len(seq) - 1))
             last == seq[Len(seq)]
         IN  IF \E i \in 1..Len(init) : init[i] = last THEN init ELSE Append(init, last)

\* Array.prototype.flat of a sequence of sequences
RECURSIVE Flatten(_)
Flatten(seqs) == IF seqs = <<>> THEN <<>> ELSE Head(seqs) \o Flatten(Tail(seqs))

\* Array.prototype.slice(0, n)
Slice(seq, n) == SubSeq(seq, 1, Min2(n, Len(seq)))

Range(seq) == {seq[i] : i \in 1..Len(seq)}

\* the function-valued properties every object literal inherits from
\* Object.prototype
ObjectPrototypeFunctions ==
    {<<"c", "o", "n", "s", "t", "r", "u", "c", "t", "o", "r">>, <<"t", "o", "S", "t", "r", "i", "n", "g">>, <<"v", "a", "l", "u", "e", "O", "f">>, <<"h", "a", "s", "O", "w", "n", "P", "r", "o", "p", "e", "r", "t", "y">>, <<"i", "s", "P", "r", "o", "t", "o", "t", "y", "p", "e", "O", "f">>,
     <<"p", "r", "o", "p", "e", "r", "t", "y", "I", "s", "E", "n", "u", "m", "e", "r", "a", "b", "l", "e">>, <<"t", "o", "L", "o", "c", "a", "l", "e", "S", "t", "r", "i", "n", "g">>}

\* a function where a string is expected ("function" is not one character,
\* so no string is equal to it)
FunctionValue == <<"function">>

\* ============================================================== DataLoader

\* mutant of startsFetch: the guard on isLoading is left out
startsFetchAlways(loading) == TRUE

\* DataLoader.loadData: if (this.isLoading) return; a call goes on to the
\* fetch only when no load is in flight
startsFetch(loading) == ~loading

\* DataLoader.cleanText
cleanText(obj, field) ==
    IF ~Truthy(obj, field) THEN <<>>
    ELSE Trim(CollapseSpaces(ReplaceAll(ReplaceAll(obj[field], <<"\\", "n">>, <<" ">>), <<"\\", "/">>, <<"/">>)))

\* the alternatives of the three keyword patterns of extractKeywords, in the
\* order the regular expressions list them; "\\s+" stands for a run of
\* whitespace
WS == "\\s+"
KeywordPatterns == <<
    << <<"d", "e", "v", "e", "l", "o", "p", "e", "r">>, <<"e", "n", "g", "i", "n", "e", "e", "r">>, <<"d", "e", "s", "i", "g", "n", "e", "r">>, <<"p", "r", "o", "d", "u", "c", "t">>, <<"m", "a", "n", "a", "g", "e", "r">>,
       <<"f", "o", "u", "n", "d", "e", "r">>, <<"c", "e", "o">>, <<"c", "t", "o">>, <<"b", "l", "o", "c", "k", "c", "h", "a", "i", "n">>, <<"w", "e", "b", "3">>, <<"a", "i">>,
       <<"m", "a", "c", "h", "i", "n", "e", " ", "l", "e", "a", "r", "n", "i", "n", "g">>, <<"d", "a", "t", "a">>, <<"f", "r", "o", "n", "t", "e", "n", "d">>, <<"b", "a", "c", "k", "e", "n", "d">>, <<"f", "u", "l", "l", "s", "t", "a", "c", "k">>,
       <<"s", "t", "a", "r", "t", "u", "p">>, <<"e", "n", "t", "r", "e", "p", "r", "e", "n", "e", "u", "r">> >>,
    << <<"r", "e", "a", "c", "t">>, <<"j", "a", "v", "a", "s", "c", "r", "i", "p", "t">>, <<"p", "y", "t", "h", "o", "n">>, <<"s", "o", "l", "a", "n", "a">>, <<"e", "t", "h", "e", "r", "e", "u", "m">>, <<"b", "i", "t", "c", "o", "i", "n">>,
       <<"d", "e", "f", "i">>, <<"n", "f", "t">>, <<"c", "r", "y", "p", "t", "o">> >>,
    << <<"y", "e", "a", "r", "s">> \o <<WS>> \o <<"o", "f">> \o <<WS>> \o <<"e", "x", "p", "e", "r", "i", "e", "n", "c", "e">>,
       <<"y", "e", "a", "r">> \o <<WS>> \o <<"o", "f">> \o <<WS>> \o <<"e", "x", "p", "e", "r", "i", "e", "n", "c", "e">>,
       <<"e", "x", "p", "e", "r", "i", "e", "n", "c", "e">> \o <<WS>> \o <<"i", "n">>,
       <<"w", "o", "r", "k", "e", "d">> \o <<WS>> \o <<"a", "t">>,
       <<"w", "o", "r", "k", "i", "n", "g">> \o <<WS>> \o <<"a", "t">> >> >>

\* end position (exclusive) of alternative alt matched at pos, 0 if none
RECURSIVE MatchAlt(_, _, _, _)
MatchAlt(text, alt, k, pos) ==
    IF k > Len(alt) THEN pos
    ELSE IF alt[k] = WS
         THEN IF pos <= Len(text) /\ IsSpace(text[pos])
              THEN LET rest == SubSeq(text, pos, Len(text))
                       next == pos + (Len(rest) - Len(TrimStart(rest)))
                   IN  MatchAlt(text, alt, k + 1, next)
              ELSE 0
         ELSE IF pos <= Len(text) /\ text[pos] = alt[k]
              THEN MatchAlt(text, alt, k + 1, pos + 1)
              ELSE 0

\* \b between positions pos-1 and pos
Boundary(text, pos) ==
    LET before == pos > 1 /\ pos - 1 <= Len(text) /\ IsWordChar(text[pos - 1])
        after  == pos >= 1 /\ pos <= Len(text) /\ IsWordChar(text[pos])
    IN  before # after

\* first alternative of alts (from index a) that matches at pos between two
\* word boundaries: its end position, 0 if none
RECURSIVE FirstAlt(_, _, _, _)
FirstAlt(text, alts, a, pos) ==
    IF a > Len(alts) THEN 0
    ELSE LET e == MatchAlt(text, alts[a], 1, pos)
         IN  IF e # 0 /\ Boundary(text, e) THEN e ELSE FirstAlt(text, alts, a + 1, pos)

\* text.match(pattern) with the g flag: the matched substrings, left to right
RECURSIVE MatchAll(_, _, _)
MatchAll(text, alts, pos) ==
    IF pos > Len(text) THEN <<>>
    ELSE LET e == IF Boundary(text, pos) THEN FirstAlt(text, alts, 1, pos) ELSE 0
         IN  IF e # 0
             THEN <<SubSeq(text, pos, e - 1)>> \o MatchAll(text, alts, e)
             ELSE MatchAll(text, alts, pos + 1)

\* DataLoader.extractKeywords
extractKeywords(obj, field) ==
    IF ~Truthy(obj, field) THEN <<>>
    ELSE LET text == ToLowerCase(obj[field])
         IN  Dedup(Flatten([p \in 1..Len(KeywordPatterns) |->
                               MatchAll(text, KeywordPatterns[p], 1)]))

\* the alias table of normalizeLocation
locationMappings ==
    << <<<<"s", "f">>, <<"s", "a", "n", " ", "f", "r", "a", "n", "c", "i", "s", "c", "o">>>>,
       <<<<"b", "a", "y", " ", "a", "r", "e", "a">>, <<"s", "a", "n", " ", "f", "r", "a", "n", "c", "i", "s", "c", "o">>>>,
       <<<<"s", "i", "l", "i", "c", "o", "n", " ", "v", "a", "l", "l", "e", "y">>, <<"s", "a", "n", " ", "f", "r", "a", "n", "c", "i", "s", "c", "o">>>>,
       <<<<"n", "y", "c">>, <<"n", "e", "w", " ", "y", "o", "r", "k">>>>,
       <<<<"n", "e", "w", " ", "y", "o", "r", "k", " ", "c", "i", "t", "y">>, <<"n", "e", "w", " ", "y", "o", "r", "k">>>>,
       <<<<"l", "a">>, <<"l", "o", "s", " ", "a", "n", "g", "e", "l", "e", "s">>>>,
       <<<<"s", "g">>, <<"s", "i", "n", "g", "a", "p", "o", "r", "e">>>>,
       <<<<"u", "k">>, <<"u", "n", "i", "t", "e", "d", " ", "k", "i", "n", "g", "d", "o", "m">>>>,
       <<<<"u", "s", "a">>, <<"u", "n", "i", "t", "e", "d", " ", "s", "t", "a", "t", "e", "s">>>>,
       <<<<"u", "s">>, <<"u", "n", "i", "t", "e", "d", " ", "s", "t", "a", "t", "e", "s">>>> >>

\* mutant of normalizeLocation: a missing location gives the empty string
normalizeLocationEmpty(obj, field) ==
    IF ~Truthy(obj, field) THEN <<>>
    ELSE LET normalized == Trim(ToLowerCase(obj[field]))
         IN  IF \E i \in 1..Len(locationMappings) : locationMappings[i][1] = normalized
             THEN locationMappings[CHOOSE i \in 1..Len(locationMappings) :
                                       locationMappings[i][1] = normalized][2]
             ELSE IF normalized \in ObjectPrototypeFunctions THEN FunctionValue
             ELSE normalized

\* DataLoader.normalizeLocation: locationMappings[normalized] || normalized
\* reads the own property of the table, else the property the table
\* inherits from Object.prototype, else falls back to normalized
normalizeLocation(obj, field) ==
    IF ~Truthy(obj, field) THEN Null
    ELSE LET normalized == Trim(ToLowerCase(obj[field]))
         IN  IF \E i \in 1..Len(locationMappings) : locationMappings[i][1] = normalized
             THEN locationMappings[CHOOSE i \in 1..Len(locationMappings) :
                                       locationMappings[i][1] = normalized][2]
             ELSE IF normalized \in ObjectPrototypeFunctions THEN FunctionValue
             ELSE normalized

\* member.tags || []
TagsOf(member) == IF "tags" \in DOMAIN member THEN member.tags ELSE <<>>

\* DataLoader.createSearchableText
createSearchableText(member) ==
    LET textFields == <<"name", "username", "location", "professional_summary",
                        "personal_summary", "philosophical_summary">>
        present == Filter(textFields, LAMBDA f : Truthy(member, f))
        fields == [i \in 1..Len(present) |-> member[present[i]]]
                  \o Filter(TagsOf(member), LAMBDA t : t # <<>>)
    IN  ToLowerCase(Join(fields))

\* DataLoader.processSocialLinks
processSocialLinks(member) ==
    LET twitter  == IF Truthy(member, "x_url")
                    THEN [twitter |-> ReplaceAll(member.x_url, <<"\\", "/">>, <<"/">>)]
                    ELSE <<>>
        linkedin == IF Truthy(member, "linkedin_url")
                    THEN [linkedin |-> ReplaceAll(member.linkedin_url, <<"\\", "/">>, <<"/">>)]
                    ELSE <<>>
        discord  == IF Truthy(member, "discord_handle")
                    THEN [discord |-> member.discord_handle]
                    ELSE <<>>
    IN  Spread(Spread(twitter, linkedin), discord)

\* the object literal built for one member by processData
processMember(member) ==
    Spread(member,
        [name                     |-> cleanText(member, "name"),
         location                 |-> cleanText(member, "location"),
         professional_summary     |-> cleanText(member, "professional_summary"),
         personal_summary         |-> cleanText(member, "personal_summary"),
         philosophical_summary    |-> cleanText(member, "philosophical_summary"),
         tags                     |-> TagsOf(member),
         professional_keywords    |-> extractKeywords(member, "professional_summary"),
         location_normalized      |-> normalizeLocation(member, "location"),
         has_location             |-> Truthy(member, "location"),
         has_professional_summary |-> Truthy(member, "professional_summary"),
         has_personal_summary     |-> Truthy(member, "personal_summary"),
         has_social_links         |-> \/ Truthy(member, "x_url")
                                      \/ Truthy(member, "linkedin_url")
                                      \/ Truthy(member, "discord_handle"),
         searchable_text          |-> createSearchableText(member),
         social_links             |-> processSocialLinks(member)])

\* DataLoader.processData
processData(raw) == [i \in 1..Len(raw) |-> processMember(raw[i])]

\* ============================================================ SearchEngine

\* JavaScript numbers that arise from a few additions and one division each:
\* NaN, or the fraction num/den in lowest terms
NaN == [nan |-> TRUE, num |-> 0, den |-> 1]
RECURSIVE GCD(_, _)
GCD(a, b) == IF b = 0 THEN a ELSE GCD(b, a % b)
Frac(n, d) == LET g == GCD(n, d) IN [nan |-> FALSE, num |-> n \div g, den |-> d \div g]
\* c / m of two array lengths; 0 / 0 is NaN (c = 0 whenever m = 0 below)
Divide(c, m) == IF m = 0 THEN NaN ELSE Frac(c, m)
Plus(x, y) ==
    IF x.nan \/ y.nan THEN NaN ELSE Frac(x.num * y.den + y.num * x.den, x.den * y.den)
Times(x, y) == IF x.nan \/ y.nan THEN NaN ELSE Frac(x.num * y.num, x.den * y.den)
\* x > y; every comparison with NaN is false
Greater(x, y) == ~x.nan /\ ~y.nan /\ x.num * y.den > y.num * x.den

\* outcome of a call: the value returned, or an exception thrown
Return(v) == [threw |-> FALSE, value |-> v]
Throw == [threw |-> TRUE, value |-> <<>>]
\* the promise of a call that has not settled yet
Pending == [threw |-> FALSE, value |-> <<"pending">>]

\* one row of the matrix of levenshteinDistance: cells j = 0..Len(a) of row i
\* (cell j is at index j + 1), given row i - 1
RECURSIVE levenshteinRow(_, _, _, _, _, _)
levenshteinRow(prev, a, b, i, j, cur) ==
    IF j > Len(a) THEN cur
    ELSE LET cell == IF b[i] = a[j] THEN prev[j]
                     ELSE Min2(prev[j] + 1, Min2(cur[j] + 1, prev[j + 1] + 1))
         IN  levenshteinRow(prev, a, b, i, j + 1, Append(cur, cell))

RECURSIVE levenshteinRows(_, _, _, _)
levenshteinRows(prev, a, b, i) ==
    IF i > Len(b) THEN prev
    ELSE levenshteinRows(levenshteinRow(prev, a, b, i, 1, <<i>>), a, b, i + 1)

\* SearchEngine.levenshteinDistance
levenshteinDistance(a, b) ==
    levenshteinRows([j \in 1..(Len(a) + 1) |-> j - 1], a, b, 1)[Len(a) + 1]

\* mutant of stringSimilarity: the distance is taken over the shorter length
stringSimilarityShorter(a, b) ==
    IF a = b THEN Frac(1, 1)
    ELSE IF Len(a) = 0 \/ Len(b) = 0 THEN Frac(0, 1)
    ELSE LET longer  == IF Len(a) > Len(b) THEN a ELSE b
             shorter == IF Len(a) > Len(b) THEN b ELSE a
             editDistance == levenshteinDistance(longer, shorter)
         IN  Frac(Max2(Len(shorter) - editDistance, 0), Len(shorter))

\* SearchEngine.stringSimilarity
stringSimilarity(a, b) ==
    IF a = b THEN Frac(1, 1)
    ELSE IF Len(a) = 0 \/ Len(b) = 0 THEN Frac(0, 1)
    ELSE LET longer  == IF Len(a) > Len(b) THEN a ELSE b
             shorter == IF Len(a) > Len(b) THEN b ELSE a
             editDistance == levenshteinDistance(longer, shorter)
         IN  Frac(Len(longer) - editDistance, Len(longer))

\* SearchEngine.fuzzyMatch
fuzzyMatch(text, term) ==
    IF Len(term) < 4 THEN FALSE
    ELSE LET words == Split(text)
         IN  \E w \in 1..Len(words) :
                /\ Len(words[w]) >= 3
                /\ Greater(stringSimilarity(words[w], term), Frac(7, 10))

\* some tag of the member contains term, case-insensitively
SomeTagIncludes(member, term) ==
    \E t \in 1..Len(member.tags) : Includes(ToLowerCase(member.tags[t]), term)

\* mutant of termScore: a match in the name adds 5
termScoreNameFive(member, term) ==
      (IF Truthy(member, "name") /\ Includes(ToLowerCase(member.name), term)
       THEN 5 ELSE 0)
    + (IF Truthy(member, "professional_summary")
          /\ Includes(ToLowerCase(member.professional_summary), term)
       THEN 5 ELSE 0)
    + (IF "tags" \in DOMAIN member /\ SomeTagIncludes(member, term) THEN 5 ELSE 0)
    + (IF Truthy(member, "personal_summary")
          /\ Includes(ToLowerCase(member.personal_summary), term)
       THEN 2 ELSE 0)
    + (IF Truthy(member, "location") /\ Includes(ToLowerCase(member.location), term)
       THEN 3 ELSE 0)

\* what one search term adds to the relevance score of member
termScore(member, term) ==
      (IF Truthy(member, "name") /\ Includes(ToLowerCase(member.name), term)
       THEN 10 ELSE 0)
    + (IF Truthy(member, "professional_summary")
          /\ Includes(ToLowerCase(member.professional_summary), term)
       THEN 5 ELSE 0)
    + (IF "tags" \in DOMAIN member /\ SomeTagIncludes(member, term) THEN 5 ELSE 0)
    + (IF Truthy(member, "personal_summary")
          /\ Includes(ToLowerCase(member.personal_summary), term)
       THEN 2 ELSE 0)
    + (IF Truthy(member, "location") /\ Includes(ToLowerCase(member.location), term)
       THEN 3 ELSE 0)

\* SearchEngine.calculateRelevanceScore
RECURSIVE calculateRelevanceScore(_, _)
calculateRelevanceScore(member, searchTerms) ==
    IF searchTerms = <<>> THEN 0
    ELSE termScore(member, Head(searchTerms))
         + calculateRelevanceScore(member, Tail(searchTerms))

\* mutant of withScore: the score is written on the member itself
withScoreInPlace(member, field, score) ==
    [copy   |-> Spread(member, [f \in {field} |-> score]),
     source |-> Spread(member, [f \in {field} |-> score])]

\* { ...member, [field]: score }: the fresh object, and the object it was
\* copied from as the statement leaves it
withScore(member, field, score) ==
    [copy   |-> Spread(member, [f \in {field} |-> score]),
     source |-> member]

\* the terms of a search string
searchTerms(searchTerm) == Filter(Split(ToLowerCase(searchTerm)), LAMBDA t : Len(t) > 0)

\* the member passes the text search
textMatch(member, terms) ==
    \A t \in 1..Len(terms) :
        \/ Includes(member.searchable_text, terms[t])
        \/ fuzzyMatch(member.searchable_text, terms[t])

\* SearchEngine.applyTextSearch: the list returned (out) and the objects of
\* data as the call leaves them (data)
applyTextSearch(data, searchTerm) ==
    IF Trim(searchTerm) = <<>> THEN [out |-> data, data |-> data]
    ELSE LET terms == searchTerms(searchTerm)
             pass == [i \in 1..Len(data) |-> textMatch(data[i], terms)]
             scored == [i \in 1..Len(data) |->
                          withScore(data[i], "relevanceScore",
                                    calculateRelevanceScore(data[i], terms))]
             idx == KeptIndices(Len(data), pass)
         IN  [out  |-> [j \in 1..Len(idx) |-> scored[idx[j]].copy],
              data |-> [i \in 1..Len(data) |->
                           IF pass[i] THEN scored[i].source ELSE data[i]]]

\* mutant of locationFilter: a normalized location that contains the filter
\* value matches
locationFilterIncludes(results, location) ==
    Filter(results, LAMBDA member : Includes(member.location_normalized, location))

\* the location filter of search
locationFilter(results, location) ==
    Filter(results, LAMBDA member : member.location_normalized = location)

\* the profession filter of search
professionFilter(results, profession) ==
    Filter(results, LAMBDA member :
        /\ Truthy(member, "professional_summary")
        /\ Includes(ToLowerCase(member.professional_summary), ToLowerCase(profession)))

\* mutant of tagsFilter: a filter tag that contains the profile tag matches too
tagsFilterEitherWay(results, tags) ==
    Filter(results, LAMBDA member :
        /\ "tags" \in DOMAIN member
        /\ \E t \in 1..Len(tags) : \E u \in 1..Len(member.tags) :
              \/ Includes(ToLowerCase(member.tags[u]), ToLowerCase(tags[t]))
              \/ Includes(ToLowerCase(tags[t]), ToLowerCase(member.tags[u])))

\* the tags filter of search
tagsFilter(results, tags) ==
    Filter(results, LAMBDA member :
        /\ "tags" \in DOMAIN member
        /\ \E t \in 1..Len(tags) : SomeTagIncludes(member, ToLowerCase(tags[t])))

\* mutant of mergeFilters: the spread the other way round, held values win
mergeFiltersHeldWins(held, filters) == Spread(filters, held)

\* mutant of mergeFilters: the tags of the argument are added to the held tags
mergeFiltersAppendTags(held, filters) ==
    Spread(Spread(held, filters),
           IF "tags" \in DOMAIN filters /\ "tags" \in DOMAIN held
           THEN [tags |-> held.tags \o filters.tags] ELSE <<>>)

\* the held filters after search merges its argument into them
mergeFilters(held, filters) == Spread(held, filters)

\* mutant of applyFilters: the location filter runs without its guard
applyFiltersNoLocationGuard(data, f) ==
    LET text == IF f.search # <<>> THEN applyTextSearch(data, f.search)
                ELSE [out |-> data, data |-> data]
        r1 == text.out
        r2 == locationFilter(r1, f.location)
        r3 == IF f.profession # <<>> THEN professionFilter(r2, f.profession) ELSE r2
        r4 == IF Len(f.tags) > 0 THEN tagsFilter(r3, f.tags) ELSE r3
    IN  [out |-> r4, data |-> text.data]

\* mutant of applyFilters: the tags filter reads the whole collection, not
\* the results so far
applyFiltersTagsFromAll(data, f) ==
    LET text == IF f.search # <<>> THEN applyTextSearch(data, f.search)
                ELSE [out |-> data, data |-> data]
        r1 == text.out
        r2 == IF f.location # <<>> THEN locationFilter(r1, f.location) ELSE r1
        r3 == IF f.profession # <<>> THEN professionFilter(r2, f.profession) ELSE r2
        r4 == IF Len(f.tags) > 0 THEN tagsFilter(data, f.tags) ELSE r3
    IN  [out |-> r4, data |-> text.data]

\* mutant of applyFilters: the profession stage is left out
applyFiltersNoProfession(data, f) ==
    LET text == IF f.search # <<>> THEN applyTextSearch(data, f.search)
                ELSE [out |-> data, data |-> data]
        r1 == text.out
        r2 == IF f.location # <<>> THEN locationFilter(r1, f.location) ELSE r1
        r4 == IF Len(f.tags) > 0 THEN tagsFilter(r2, f.tags) ELSE r2
    IN  [out |-> r4, data |-> text.data]

\* the body of search once the filters are merged: the list stored and
\* returned (out) and the collection as the call leaves it (data)
applyFilters(data, f) ==
    LET text == IF f.search # <<>> THEN applyTextSearch(data, f.search)
                ELSE [out |-> data, data |-> data]
        r1 == text.out
        r2 == IF f.location # <<>> THEN locationFilter(r1, f.location) ELSE r1
        r3 == IF f.profession # <<>> THEN professionFilter(r2, f.profession) ELSE r2
        r4 == IF Len(f.tags) > 0 THEN tagsFilter(r3, f.tags) ELSE r3
    IN  [out |-> r4, data |-> text.data]

\* the filters clearFilters installs
clearedFilters ==
    [search |-> <<>>, location |-> <<>>, profession |-> <<>>, tags |-> <<>>]

\* mutant of resetFilters: the held tags are left in place
resetFiltersKeepsTags(held) == [clearedFilters EXCEPT !.tags = held.tags]

\* the object clearFilters assigns to activeFilters in place of held
resetFilters(held) == clearedFilters

\* mutant of getActiveFilters: a string is active when it is not empty
getActiveFiltersNoTrim(f) ==
    [key \in {k \in DOMAIN f : Len(f[k]) > 0} |-> f[key]]

\* SearchEngine.getActiveFilters on the held filters f: of the fields of
\* FilterSpec, tags is the array and the others are strings
getActiveFilters(f) ==
    [key \in {k \in DOMAIN f : IF k = "tags" THEN Len(f[k]) > 0
                                 ELSE Trim(f[k]) # <<>>} |-> f[key]]

\* mutant of noEngine: performSearch goes on without an engine
noEngineNever(engine) == FALSE

\* NSocialApp.performSearch: if (!this.searchEngine) return
noEngine(engine) == ~engine

\* UIComponents.toggleTag on the list of selected tags: the tag is taken out
\* when it is in the list and appended when it is not
toggleTag(selected, tag) ==
    IF \E i \in 1..Len(selected) : selected[i] = tag
    THEN LET index == CHOOSE i \in 1..Len(selected) :
                          /\ selected[i] = tag
                          /\ \A j \in 1..(i - 1) : selected[j] # tag
         IN  SubSeq(selected, 1, index - 1) \o SubSeq(selected, index + 1, Len(selected))
    ELSE Append(selected, tag)

\* the filters the constructor installs
initialFilters ==
    [search |-> <<>>, location |-> <<>>, profession |-> <<>>, cohort |-> <<>>,
     tags |-> <<>>]

\* case-insensitive tag intersection, counted over the tags of member1
commonTagCount(member1, member2) ==
    Cardinality({i \in 1..Len(member1.tags) :
        \E j \in 1..Len(member2.tags) :
            ToLowerCase(member2.tags[j]) = ToLowerCase(member1.tags[i])})

commonKeywordCount(member1, member2) ==
    Cardinality({i \in 1..Len(member1.professional_keywords) :
        \E j \in 1..Len(member2.professional_keywords) :
            member2.professional_keywords[j] = member1.professional_keywords[i]})

\* SearchEngine.calculateProfileSimilarity
calculateProfileSimilarity(member1, member2) ==
    LET loc == IF member1.location_normalized = member2.location_normalized
               THEN Frac(3, 10) ELSE Frac(0, 1)
        tagTerm ==
            IF "tags" \in DOMAIN member1 /\ "tags" \in DOMAIN member2
            THEN Times(Divide(commonTagCount(member1, member2),
                              Max2(Len(member1.tags), Len(member2.tags))),
                       Frac(4, 10))
            ELSE Frac(0, 1)
        kwTerm ==
            IF "professional_keywords" \in DOMAIN member1
               /\ "professional_keywords" \in DOMAIN member2
            THEN Times(Divide(commonKeywordCount(member1, member2),
                              Max2(Len(member1.professional_keywords),
                                   Len(member2.professional_keywords))),
                       Frac(1, 10))
            ELSE Frac(0, 1)
    IN  Plus(Plus(loc, tagTerm), kwTerm)

\* ----------------------------------------------------------------- sorting
\* Array.prototype.sort with a comparison function.  before[i][j] says that
\* the comparison of elements i and j is negative (i sorts before j).  The
\* sort is stable; when the comparison is not a consistent ordering the
\* order of the result is implementation-defined, so every permutation is a
\* possible outcome.
Equivalent(before, i, j) == ~before[i][j] /\ ~before[j][i]

Consistent(n, before) ==
    \A i, j, k \in 1..n :
        /\ (before[i][j] /\ before[j][k]) => before[i][k]
        /\ (Equivalent(before, i, j) /\ Equivalent(before, j, k))
               => Equivalent(before, i, k)

InsertStable(sorted, n, before) ==
    LET later == {p \in 1..Len(sorted) : before[n][sorted[p]]}
        k == IF later = {} THEN Len(sorted) + 1
             ELSE CHOOSE p \in later : \A q \in later : p <= q
    IN  SubSeq(sorted, 1, k - 1) \o <<n>> \o SubSeq(sorted, k, Len(sorted))

RECURSIVE StableOrder(_, _)
StableOrder(n, before) ==
    IF n = 0 THEN <<>> ELSE InsertStable(StableOrder(n - 1, before), n, before)

IndexOrders(n) ==
    {p \in [1..n -> 1..n] : \A i, j \in 1..n : p[i] = p[j] => i = j}

\* the index orders the sort may produce
SortOrders(n, before) ==
    IF Consistent(n, before) THEN {StableOrder(n, before)} ELSE IndexOrders(n)

\* UTF-16 code unit order of the characters that occur in the data
CodeOrder == <<" ", "+", "/">>
    \o <<"0","1","2","3","4","5","6","7","8","9">>
    \o UpperChars \o <<"\\", "_">> \o LowerChars
CodeOf(c) == CHOOSE i \in 1..Len(CodeOrder) : CodeOrder[i] = c

\* a < b as Array.prototype.sort() without a comparison function orders strings
RECURSIVE CodeLess(_, _)
CodeLess(a, b) ==
    IF b = <<>> THEN FALSE
    ELSE IF a = <<>> THEN TRUE
    ELSE IF Head(a) = Head(b) THEN CodeLess(Tail(a), Tail(b))
    ELSE CodeOf(Head(a)) < CodeOf(Head(b))

\* [...seq].sort() of strings
SortStrings(seq) ==
    LET before == [i \in 1..Len(seq) |-> [j \in 1..Len(seq) |-> CodeLess(seq[i], seq[j])]]
        order == StableOrder(Len(seq), before)
    IN  [k \in 1..Len(seq) |-> seq[order[k]]]

\* String.prototype.localeCompare(a, b) < 0 in the root collation: whitespace
\* and punctuation before digits before letters, letters alphabetically
\* whatever their case; strings equal up to case are ordered lower case first
PrimaryOrder == <<" ", "_", "/", "\\", "+">>
    \o <<"0","1","2","3","4","5","6","7","8","9">> \o LowerChars
PrimaryOf(c) == CHOOSE i \in 1..Len(PrimaryOrder) : PrimaryOrder[i] = LowerChar(c)
RECURSIVE PrimaryLess(_, _)
PrimaryLess(a, b) ==
    IF b = <<>> THEN FALSE
    ELSE IF a = <<>> THEN TRUE
    ELSE IF PrimaryOf(Head(a)) = PrimaryOf(Head(b)) THEN PrimaryLess(Tail(a), Tail(b))
    ELSE PrimaryOf(Head(a)) < PrimaryOf(Head(b))
RECURSIVE CaseLess(_, _)
CaseLess(a, b) ==
    IF a = <<>> \/ b = <<>> THEN FALSE
    ELSE IF Head(a) = Head(b) THEN CaseLess(Tail(a), Tail(b))
    ELSE LowerChar(Head(a)) = Head(a)
localeLess(a, b) ==
    \/ PrimaryLess(a, b)
    \/ ~PrimaryLess(b, a) /\ CaseLess(a, b)

\* a.name || ''
NameOf(member) == IF Truthy(member, "name") THEN member.name ELSE <<>>
\* a.post_date || 0
PostDateOf(member) == IF "post_date" \in DOMAIN member THEN member.post_date ELSE 0

\* mutant of sortResults: the argument array itself is sorted
sortResultsInPlace(results, sortBy) ==
    LET n == Len(results)
        before == [i \in 1..n |-> [j \in 1..n |->
                     IF sortBy = "recent"
                     THEN PostDateOf(results[i]) > PostDateOf(results[j])
                     ELSE localeLess(NameOf(results[i]), NameOf(results[j]))]]
        order == StableOrder(n, before)
    IN  [out |-> [k \in 1..n |-> results[order[k]]],
         input |-> [k \in 1..n |-> results[order[k]]]]

\* SearchEngine.sortResults: the sorted copy (out) and the argument array as
\* the call leaves it (input)
sortResults(results, sortBy) ==
    LET n == Len(results)
        before == [i \in 1..n |-> [j \in 1..n |->
                     IF sortBy = "recent"
                     THEN PostDateOf(results[i]) > PostDateOf(results[j])
                     ELSE localeLess(NameOf(results[i]), NameOf(results[j]))]]
        order == StableOrder(n, before)
    IN  [out |-> [k \in 1..n |-> results[order[k]]], input |-> results]

\* mutant of similarCandidates: the target is not taken out
similarCandidatesAll(data, targetMember) == [i \in 1..Len(data) |-> TRUE]

\* the candidates of findSimilarMembers: the members whose username is not
\* the target's
similarCandidates(data, targetMember) ==
    [i \in 1..Len(data) |-> data[i].username # targetMember.username]

\* SearchEngine.findSimilarMembers: the possible outcomes, each the list
\* returned (out) and the collection as the call leaves it (data).  target
\* is <<>> for a missing target and <<member>> otherwise; pd is the
\* loader's processedData
findSimilarMembers(pd, target, count) ==
    IF target = <<>> \/ pd = <<>> THEN {[out |-> <<>>, data |-> pd]}
    ELSE LET data == pd[1]
             targetMember == target[1]
             keep == similarCandidates(data, targetMember)
             idx == KeptIndices(Len(data), keep)
             scored == [i \in 1..Len(data) |->
                          withScore(data[i], "similarityScore",
                                    calculateProfileSimilarity(targetMember, data[i]))]
             similarities == [j \in 1..Len(idx) |-> scored[idx[j]].copy]
             n == Len(similarities)
             before == [i \in 1..n |-> [j \in 1..n |->
                          Greater(similarities[i].similarityScore,
                                  similarities[j].similarityScore)]]
             after == [i \in 1..Len(data) |->
                          IF keep[i] THEN scored[i].source ELSE data[i]]
         IN  {[out  |-> Slice([k \in 1..n |-> similarities[order[k]]], count),
               data |-> <<after>>] : order \in SortOrders(n, before)}

\* the tags of all members, one entry per occurrence, in collection order
AllTags(data) == Flatten([i \in 1..Len(data) |-> TagsOf(data[i])])

\* a number and a string as values of one variable: the field num holds
\* the number, the field text the characters of the string
Num(n) == [type |-> "number", num |-> n, text |-> <<>>]
Str(s) == [type |-> "string", num |-> 0, text |-> s]

\* String(f) of the inherited function under key
nativeSource(key) ==
    <<"f", "u", "n", "c", "t", "i", "o", "n", " ">> \o (IF key = <<"c", "o", "n", "s", "t", "r", "u", "c", "t", "o", "r">> THEN <<"O", "b", "j", "e", "c", "t">> ELSE key)
        \o <<"(", ")", " ", "{", " ", "[", "n", "a", "t", "i", "v", "e", " ", "c", "o", "d", "e", "]", " ">> \o <<"}">>

\* position of the own property key of the object counts, 0 if it has none
OwnIndex(counts, key) ==
    IF \E k \in 1..Len(counts) : counts[k].tag = key
    THEN CHOOSE k \in 1..Len(counts) : counts[k].tag = key
    ELSE 0

\* tagCounts[tag] = (tagCounts[tag] || 0) + 1: the read finds the own
\* property, else the inherited one; a number is incremented, a string or a
\* function has "1" appended to its text
countTag(counts, tag) ==
    LET own == OwnIndex(counts, tag)
        next == IF own # 0
                THEN IF counts[own].count.type = "number"
                     THEN Num(counts[own].count.num + 1)
                     ELSE Str(counts[own].count.text \o <<"1">>)
                ELSE IF tag \in ObjectPrototypeFunctions
                     THEN Str(nativeSource(tag) \o <<"1">>)
                     ELSE Num(1)
    IN  IF own # 0 THEN [counts EXCEPT ![own].count = next]
        ELSE Append(counts, [tag |-> tag, count |-> next])

\* the object tagCounts after the first k occurrences, its own properties
\* in insertion order (no tag of the inputs is an array index, which
\* Object.entries would list first)
RECURSIVE tagCounts(_, _)
tagCounts(occurrences, k) ==
    IF k = 0 THEN <<>>
    ELSE countTag(tagCounts(occurrences, k - 1), occurrences[k])

\* b - a < 0 for two counts; the difference with a string that is no
\* numeral is NaN
CountGreater(a, b) == a.type = "number" /\ b.type = "number" /\ a.num > b.num

\* SearchEngine.getTrendingTags: the lists the call may return
getTrendingTags(pd, limit) ==
    IF pd = <<>> THEN {<<>>}
    ELSE LET occurrences == AllTags(pd[1])
             entries == tagCounts(occurrences, Len(occurrences))
             n == Len(entries)
             before == [i \in 1..n |-> [j \in 1..n |->
                            CountGreater(entries[i].count, entries[j].count)]]
         IN  {Slice([k \in 1..n |-> entries[order[k]]], limit) :
                 order \in SortOrders(n, before)}

\* DataLoader.getFilterOptions: <<>> for null, else <<options>> (the
\* profession list is left out: no operation of the engine reads it; the
\* normalized locations of the collections loaded here are strings)
getFilterOptions(pd) ==
    IF pd = <<>> THEN <<>>
    ELSE LET data == pd[1]
             locs == Filter([i \in 1..Len(data) |-> data[i].location_normalized],
                            LAMBDA l : l # Null /\ l # <<>>)
             tags == Filter(AllTags(data), LAMBDA t : t # <<>>)
         IN  << [locations |-> SortStrings(Dedup(locs)),
                 tags      |-> SortStrings(Dedup(tags))] >>

\* mutant of getSearchSuggestions: the options are read without the test
\* that there are any
getSearchSuggestionsNoGuard(pd, partial) ==
    IF partial = Null \/ Len(partial) < 2 THEN Return(<<>>)
    ELSE LET partialLower == ToLowerCase(partial)
             filterOptions == getFilterOptions(pd)
         IN  IF filterOptions = <<>> THEN Throw
             ELSE LET locs == Filter(filterOptions[1].locations,
                                     LAMBDA l : Includes(l, partialLower))
                      tags == Filter(filterOptions[1].tags,
                                     LAMBDA t : Includes(ToLowerCase(t), partialLower))
                      suggestions ==
                          [i \in 1..Len(locs) |-> [type |-> "location", text |-> locs[i]]]
                          \o [i \in 1..Len(tags) |-> [type |-> "tag", text |-> tags[i]]]
                  IN  Return(Slice(suggestions, 8))

\* mutant of getSearchSuggestions: the list is not cut to 8
getSearchSuggestionsNoLimit(pd, partial) ==
    IF partial = Null \/ Len(partial) < 2 THEN Return(<<>>)
    ELSE LET partialLower == ToLowerCase(partial)
             filterOptions == getFilterOptions(pd)
         IN  IF filterOptions # <<>>
             THEN LET locs == Filter(filterOptions[1].locations,
                                     LAMBDA l : Includes(l, partialLower))
                      tags == Filter(filterOptions[1].tags,
                                     LAMBDA t : Includes(ToLowerCase(t), partialLower))
                  IN  Return([i \in 1..Len(locs) |-> [type |-> "location", text |-> locs[i]]]
                          \o [i \in 1..Len(tags) |-> [type |-> "tag", text |-> tags[i]]])
             ELSE Return(<<>>)

\* SearchEngine.getSearchSuggestions (the display text of a suggestion is
\* its text behind a fixed prefix and is left out)
getSearchSuggestions(pd, partial) ==
    IF partial = Null \/ Len(partial) < 2 THEN Return(<<>>)
    ELSE LET partialLower == ToLowerCase(partial)
             filterOptions == getFilterOptions(pd)
         IN  IF filterOptions # <<>>
             THEN LET locs == Filter(filterOptions[1].locations,
                                     LAMBDA l : Includes(l, partialLower))
                      tags == Filter(filterOptions[1].tags,
                                     LAMBDA t : Includes(ToLowerCase(t), partialLower))
                      suggestions ==
                          [i \in 1..Len(locs) |-> [type |-> "location", text |-> locs[i]]]
                          \o [i \in 1..Len(tags) |-> [type |-> "tag", text |-> tags[i]]]
                  IN  Return(Slice(suggestions, 8))
             ELSE Return(<<>>)

\* ================================================================== inputs
\* raw records of the static JSON document behind dataUrl
SampleMembers == <<
    [username |-> <<"u", "1">>, name |-> <<"D", "a", "t", "a">>, location |-> <<"S", "F", " ">>,
     professional_summary |-> <<"A", "I", " ", "d", "a", "t", "a">>, personal_summary |-> <<"a", "i">>,
     tags |-> <<<<"a", "i">>, <<"W", "e", "b", "3">>>>, post_date |-> 2, x_url |-> <<"x", ".", "c", "o", "\\", "/", "u", "1">>],
    [username |-> <<"u", "2">>, name |-> <<"B", "o">>, location |-> <<"B", "a", "y", " ", "A", "r", "e", "a">>,
     professional_summary |-> <<"A", "\\", "/", "B", " ", "d", "a", "t", "e">>, tags |-> <<<<"A", "I">>, <<"n", "f", "t">>>>,
     post_date |-> 1],
    [username |-> <<"u", "3">>] >>

\* the documents the server may hold: up to MaxMembers records with
\* distinct usernames, in any order
RawCollections ==
    UNION {{[i \in 1..n |-> SampleMembers[pick[i]]] :
               pick \in {q \in [1..n -> 1..Len(SampleMembers)] :
                            \A i, j \in 1..n : q[i] = q[j] => i = j}} :
           n \in 0..MaxMembers}

\* arguments of search
SearchInputs == <<
    <<>>,
    [search |-> <<"D", "a", "t", "a">>],
    [search |-> <<"A", "/", "B">>],
    [location |-> <<"s", "a", "n", " ", "f", "r", "a", "n", "c", "i", "s", "c", "o">>, profession |-> <<"a", "i">>],
    [tags |-> <<<<"a", "i">>>>],
    [search |-> <<>>, tags |-> <<>>],
    [search |-> <<>>, location |-> <<>>, profession |-> <<>>, tags |-> <<>>],
    [search |-> <<" ">>] >>

\* target arguments of findSimilarMembers: none, or a normalized profile
TargetInputs ==
    << <<>> >> \o [i \in 1..Len(SampleMembers) |-> <<processMember(SampleMembers[i])>>]

\* arguments of getSearchSuggestions
PartialInputs == << Null, <<"a">>, <<"A", "I">>, <<"s", "a", "n">> >>

SortInputs == {"name", "recent", "relevance"}

\* =========================================================== state machine
VARIABLES
    serverData,       \* the records of the document behind dataUrl
    rawData,          \* DataLoader.rawData: <<>> (null) or <<records>>
    processedData,    \* DataLoader.processedData: <<>> (null) or <<profiles>>
    isLoading,        \* DataLoader.isLoading
    activeFilters,    \* SearchEngine.activeFilters
    currentResults,   \* SearchEngine.currentResults
    returned,         \* outcome of the last call
    lastOp,           \* the last call: its name and its argument
    inFlight,         \* number of fetches loadData has started and not finished
    pc,               \* position of the application: "off" when only the
                      \* loader and the engine are driven, else where init or
                      \* the running handler stands
    searchEngine,     \* NSocialApp.searchEngine is constructed (not null)
    currentSort,      \* NSocialApp.currentSort
    displayed,        \* the list displayResults rendered last
    selectedTags,     \* UIComponents.selectedTags
    tagsShared        \* activeFilters.tags and selectedTags are one array object

appVars == <<pc, searchEngine, currentSort, displayed, selectedTags, tagsShared>>

vars == <<lastOp, serverData, rawData, processedData, isLoading, activeFilters,
          currentResults, returned, inFlight, appVars>>

\* the fields the constructors of NSocialApp and UIComponents set
NewApp ==
    /\ searchEngine = FALSE
    /\ currentSort = "recent"
    /\ displayed = <<>>
    /\ selectedTags = <<>>
    /\ tagsShared = FALSE

\* no application is running: the loader and the engine are called directly
NoApp == pc = "off" /\ NewApp

Call(op, arg) == [op |-> op, arg |-> arg]

Init ==
    /\ serverData \in RawCollections
    /\ rawData = <<>>
    /\ processedData = <<>>
    /\ isLoading = FALSE
    /\ activeFilters = initialFilters
    /\ currentResults = <<>>
    /\ returned = Return(<<>>)
    /\ lastOp = Call("new", 0)
    /\ inFlight = 0
    /\ NoApp

\* DataLoader.loadData up to the fetch; a call made while a load is in
\* flight returns at once
LoadData ==
    /\ lastOp' = Call("loadData", 0)
    /\ inFlight < MaxFetches
    /\ IF startsFetch(isLoading)
       THEN isLoading' = TRUE /\ inFlight' = inFlight + 1 /\ returned' = Pending
       ELSE UNCHANGED <<isLoading, inFlight>> /\ returned' = Return(<<>>)
    /\ UNCHANGED appVars
    /\ UNCHANGED <<serverData, rawData, processedData, activeFilters, currentResults>>

\* the fetch answers with an OK status and a body that parses
FetchSucceed ==
    /\ inFlight > 0
    /\ inFlight' = inFlight - 1
    /\ UNCHANGED appVars
    /\ lastOp' = Call("fetchSucceed", 0)
    /\ rawData' = <<serverData>>
    /\ processedData' = <<processData(serverData)>>
    /\ isLoading' = FALSE
    /\ returned' = Return(processedData')
    /\ UNCHANGED <<serverData, activeFilters, currentResults>>

\* the fetch rejects, answers with a non-OK status, or the body does not parse
FetchFail ==
    /\ inFlight > 0
    /\ inFlight' = inFlight - 1
    /\ UNCHANGED appVars
    /\ lastOp' = Call("fetchFail", 0)
    /\ isLoading' = FALSE
    /\ returned' = Throw
    /\ UNCHANGED <<serverData, rawData, processedData, activeFilters, currentResults>>

\* SearchEngine.search(SearchInputs[k])
Search(k) ==
    /\ lastOp' = Call("search", k)
    /\ IF processedData = <<>>
       THEN /\ returned' = Return(<<>>)
            /\ UNCHANGED <<processedData, activeFilters, currentResults>>
       ELSE LET merged == mergeFilters(activeFilters, SearchInputs[k])
                r == applyFilters(processedData[1], merged)
            IN  /\ activeFilters' = merged
                /\ processedData' = <<r.data>>
                /\ currentResults' = r.out
                /\ returned' = Return(r.out)
    /\ UNCHANGED <<inFlight, appVars>>
    /\ UNCHANGED <<serverData, rawData, isLoading>>

\* SearchEngine.clearFilters
ClearFilters ==
    /\ lastOp' = Call("clearFilters", 0)
    /\ activeFilters' = mergeFilters(resetFilters(activeFilters), <<>>)
    /\ IF processedData = <<>>
       THEN /\ returned' = Return(<<>>)
            /\ UNCHANGED <<processedData, currentResults>>
       ELSE LET r == applyFilters(processedData[1], activeFilters')
            IN  /\ processedData' = <<r.data>>
                /\ currentResults' = r.out
                /\ returned' = Return(r.out)
    /\ UNCHANGED <<inFlight, appVars>>
    /\ UNCHANGED <<serverData, rawData, isLoading>>

\* SearchEngine.getActiveFilters
GetActiveFilters ==
    /\ lastOp' = Call("getActiveFilters", 0)
    /\ returned' = Return(getActiveFilters(activeFilters))
    /\ UNCHANGED <<inFlight, appVars>>
    /\ UNCHANGED <<serverData, rawData, processedData, isLoading, activeFilters,
                   currentResults>>

\* SearchEngine.findSimilarMembers(TargetInputs[t], count)
FindSimilarMembers(t, count) ==
    /\ lastOp' = Call("findSimilarMembers", <<t, count>>)
    /\ \E r \in findSimilarMembers(processedData, TargetInputs[t], count) :
          /\ processedData' = r.data
          /\ returned' = Return(r.out)
    /\ UNCHANGED <<inFlight, appVars>>
    /\ UNCHANGED <<serverData, rawData, isLoading, activeFilters, currentResults>>

\* SearchEngine.getTrendingTags(limit)
GetTrendingTags(limit) ==
    /\ lastOp' = Call("getTrendingTags", limit)
    /\ \E r \in getTrendingTags(processedData, limit) : returned' = Return(r)
    /\ UNCHANGED <<inFlight, appVars>>
    /\ UNCHANGED <<serverData, rawData, processedData, isLoading, activeFilters,
                   currentResults>>

\* SearchEngine.getSearchSuggestions(PartialInputs[p])
GetSearchSuggestions(p) ==
    /\ lastOp' = Call("getSearchSuggestions", p)
    /\ returned' = getSearchSuggestions(processedData, PartialInputs[p])
    /\ UNCHANGED <<inFlight, appVars>>
    /\ UNCHANGED <<serverData, rawData, processedData, isLoading, activeFilters,
                   currentResults>>

\* SearchEngine.sortResults(dataLoader.processedData, sortBy), as
\* performInitialLoad calls it through displayResults
SortCollection(sortBy) ==
    /\ processedData # <<>>
    /\ lastOp' = Call("sortResults", <<"processedData", sortBy>>)
    /\ LET r == sortResults(processedData[1], sortBy)
       IN  /\ processedData' = <<r.input>>
           /\ returned' = Return(r.out)
    /\ UNCHANGED <<inFlight, appVars>>
    /\ UNCHANGED <<serverData, rawData, isLoading, activeFilters, currentResults>>

\* SearchEngine.sortResults(searchEngine.currentResults, sortBy), as
\* refreshResults calls it through displayResults
SortCurrentResults(sortBy) ==
    /\ lastOp' = Call("sortResults", <<"currentResults", sortBy>>)
    /\ LET r == sortResults(currentResults, sortBy)
       IN  /\ currentResults' = r.input
           /\ returned' = Return(r.out)
    /\ UNCHANGED <<inFlight, appVars>>
    /\ UNCHANGED <<serverData, rawData, processedData, isLoading, activeFilters>>

Next ==
    \/ LoadData
    \/ FetchSucceed
    \/ FetchFail
    \/ \E k \in 1..Len(SearchInputs) : Search(k)
    \/ ClearFilters
    \/ GetActiveFilters
    \/ \E t \in 1..Len(TargetInputs), count \in 0..MaxCount : FindSimilarMembers(t, count)
    \/ \E limit \in 0..MaxCount : GetTrendingTags(limit)
    \/ \E p \in 1..Len(PartialInputs) : GetSearchSuggestions(p)
    \/ \E sortBy \in SortInputs : SortCollection(sortBy)
    \/ \E sortBy \in SortInputs : SortCurrentResults(sortBy)

Spec == Init /\ [][Next]_vars

\* the loader and the filter state of the engine alone
NextSearch ==
    \/ LoadData
    \/ FetchSucceed
    \/ FetchFail
    \/ \E k \in 1..Len(SearchInputs) : Search(k)
    \/ ClearFilters
    \/ GetActiveFilters

SpecSearch == Init /\ [][NextSearch]_vars


\* ------------------------------------------------ tag-count specification
\* raw records that differ in their tags only
TagMembers == <<
    [username |-> <<"t", "1">>],
    [username |-> <<"t", "2">>, tags |-> <<<<"a", "i">>>>],
    [username |-> <<"t", "3">>, tags |-> <<<<"a", "i">>, <<"w", "e", "b", "3">>>>],
    [username |-> <<"t", "4">>, tags |-> <<<<"A", "I">>, <<"a", "i">>, <<"s", "o", "l", "a", "n", "a">>>>],
    [username |-> <<"t", "5">>, tags |-> <<<<"w", "e", "b", "3">>, <<"c", "o", "n", "s", "t", "r", "u", "c", "t", "o", "r">>>>] >>

TagCollections ==
    UNION {{[i \in 1..n |-> TagMembers[pick[i]]] :
               pick \in {q \in [1..n -> 1..Len(TagMembers)] :
                            \A i, j \in 1..n : q[i] = q[j] => i = j}} :
           n \in 0..MaxMembers}

InitTags ==
    /\ serverData \in TagCollections
    /\ rawData = <<>>
    /\ processedData = <<>>
    /\ isLoading = FALSE
    /\ activeFilters = initialFilters
    /\ currentResults = <<>>
    /\ returned = Return(<<>>)
    /\ lastOp = Call("new", 0)
    /\ inFlight = 0
    /\ NoApp

NextTags ==
    \/ LoadData
    \/ FetchSucceed
    \/ FetchFail
    \/ \E limit \in 0..MaxLimit : GetTrendingTags(limit)

SpecTags == InitTags /\ [][NextTags]_vars

\* ----------------------------------------------- suggestion specification
\* raw records with locations and tags enough to fill a suggestion list
SuggestMembers == <<
    [username |-> <<"s", "1">>, location |-> <<"D", "u", "b", "a", "i">>,
     tags |-> <<<<"A", "I">>, <<"a", "i", "1">>, <<"a", "i", "2">>, <<"a", "i", "3">>, <<"a", "i", "4">>, <<"a", "i", "5">>, <<"a", "i", "6">>, <<"a", "i", "7">>, <<"a", "i", "8">>>>],
    [username |-> <<"s", "2">>, location |-> <<"S", "F">>, tags |-> <<<<"S", "a", "n", "d">>, <<"a", "i">>>>],
    [username |-> <<"s", "3">>, location |-> <<"S", "a", "n", " ", "J", "o", "s", "e", " ">>],
    [username |-> <<"s", "4">>] >>

SuggestCollections ==
    UNION {{[i \in 1..n |-> SuggestMembers[pick[i]]] :
               pick \in {q \in [1..n -> 1..Len(SuggestMembers)] :
                            \A i, j \in 1..n : q[i] = q[j] => i = j}} :
           n \in 0..MaxMembers}

InitSuggest ==
    /\ serverData \in SuggestCollections
    /\ rawData = <<>>
    /\ processedData = <<>>
    /\ isLoading = FALSE
    /\ activeFilters = initialFilters
    /\ currentResults = <<>>
    /\ returned = Return(<<>>)
    /\ lastOp = Call("new", 0)
    /\ inFlight = 0
    /\ NoApp

NextSuggest ==
    \/ LoadData
    \/ FetchSucceed
    \/ FetchFail
    \/ \E p \in 1..Len(PartialInputs) : GetSearchSuggestions(p)

SpecSuggest == InitSuggest /\ [][NextSuggest]_vars

\* ------------------------------------------------ similarity specification
\* raw records whose similarity to one another takes distinct values: q1 and
\* q3 have no professional summary, q2 and q3 have no tags
SimilarMembers == <<
    [username |-> <<"q", "1">>, location |-> <<"S", "F">>, tags |-> <<<<"a", "i">>>>],
    [username |-> <<"q", "2">>, location |-> <<"S", "F">>, professional_summary |-> <<"d", "a", "t", "a">>],
    [username |-> <<"q", "3">>],
    [username |-> <<"q", "4">>, location |-> <<"s", "f">>, tags |-> <<<<"A", "I">>>>,
     professional_summary |-> <<"d", "a", "t", "a">>] >>

MaxSimilar == 3

SimilarCollections ==
    UNION {{[i \in 1..n |-> SimilarMembers[pick[i]]] :
               pick \in {q \in [1..n -> 1..Len(SimilarMembers)] :
                            \A i, j \in 1..n : q[i] = q[j] => i = j}} :
           n \in 0..MaxSimilar}

\* target arguments of findSimilarMembers: none, or a normalized profile
SimilarTargets ==
    << <<>> >> \o [i \in 1..Len(SimilarMembers) |-> <<processMember(SimilarMembers[i])>>]

InitSimilar ==
    /\ serverData \in SimilarCollections
    /\ rawData = <<>>
    /\ processedData = <<>>
    /\ isLoading = FALSE
    /\ activeFilters = initialFilters
    /\ currentResults = <<>>
    /\ returned = Return(<<>>)
    /\ lastOp = Call("new", 0)
    /\ inFlight = 0
    /\ NoApp

\* SearchEngine.findSimilarMembers(SimilarTargets[t], count)
FindSimilarAmong(t, count) ==
    /\ lastOp' = Call("findSimilarMembers", <<t, count>>)
    /\ \E r \in findSimilarMembers(processedData, SimilarTargets[t], count) :
          /\ processedData' = r.data
          /\ returned' = Return(r.out)
    /\ UNCHANGED <<inFlight, appVars>>
    /\ UNCHANGED <<serverData, rawData, isLoading, activeFilters, currentResults>>

NextSimilar ==
    \/ LoadData
    \/ FetchSucceed
    \/ FetchFail
    \/ \E t \in 1..Len(SimilarTargets), count \in 0..MaxSimilar : FindSimilarAmong(t, count)

SpecSimilar == InitSimilar /\ [][NextSimilar]_vars

\* ----------------------------------------------- application specification
\* values of the search input and of the location and profession selects
\* when a handler reads them
DomInputs == <<
    [search |-> <<>>, location |-> <<>>, profession |-> <<>>],
    [search |-> <<"D", "a", "t", "a">>, location |-> <<>>, profession |-> <<>>],
    [search |-> <<>>, location |-> <<"s", "a", "n", " ", "f", "r", "a", "n", "c", "i", "s", "c", "o">>, profession |-> <<>>] >>

\* the tag chips populateTagsFilter renders
TagChips == << <<"a", "i">>, <<"n", "f", "t">> >>

\* the state once new NSocialApp() has returned: init has called loadData,
\* whose fetch is in flight
InitApp ==
    /\ serverData \in RawCollections
    /\ rawData = <<>>
    /\ processedData = <<>>
    /\ isLoading = TRUE
    /\ inFlight = 1
    /\ activeFilters = initialFilters
    /\ currentResults = <<>>
    /\ returned = Pending
    /\ lastOp = Call("new", 0)
    /\ pc = "awaitLoad"
    /\ NewApp

\* NSocialApp.init after await loadData() has resolved: the engine is
\* constructed and performInitialLoad displays the whole collection
InitResume ==
    /\ pc = "awaitLoad"
    /\ inFlight = 0
    /\ processedData # <<>>
    /\ lastOp' = Call("performInitialLoad", 0)
    /\ searchEngine' = TRUE
    /\ activeFilters' = initialFilters
    /\ currentResults' = <<>>
    /\ LET r == sortResults(processedData[1], currentSort)
       IN  /\ processedData' = <<r.input>>
           /\ displayed' = r.out
    /\ returned' = Return(<<>>)
    /\ pc' = "idle"
    /\ UNCHANGED <<serverData, rawData, isLoading, inFlight, currentSort,
                   selectedTags, tagsShared>>

\* NSocialApp.init after await loadData() has rejected: the catch block
InitCatch ==
    /\ pc = "awaitLoad"
    /\ inFlight = 0
    /\ processedData = <<>>
    /\ lastOp' = Call("showErrorState", 0)
    /\ returned' = Return(<<>>)
    /\ pc' = "failed"
    /\ UNCHANGED <<serverData, rawData, processedData, isLoading, inFlight,
                   activeFilters, currentResults, searchEngine, currentSort,
                   displayed, selectedTags, tagsShared>>

\* the body of NSocialApp.performSearch(additionalFilters) with the DOM
\* values DomInputs[d]; additionalFilters is {}, the search value or the
\* selected tags, which getCurrentFilters has read already.  The tags passed
\* on to search are the selectedTags array itself
performSearch(d) ==
    IF noEngine(searchEngine)
    THEN /\ returned' = Return(<<>>)
         /\ UNCHANGED <<processedData, activeFilters, currentResults, displayed,
                        tagsShared>>
    ELSE IF ~searchEngine
    THEN /\ returned' = Throw
         /\ UNCHANGED <<processedData, activeFilters, currentResults, displayed,
                        tagsShared>>
    ELSE LET filters == Spread(DomInputs[d], [tags |-> selectedTags])
             merged == mergeFilters(activeFilters, filters)
             r == applyFilters(processedData[1], merged)
             shown == sortResults(r.out, currentSort)
         IN  /\ activeFilters' = merged
             /\ tagsShared' = TRUE
             /\ processedData' = <<r.data>>
             /\ currentResults' = shown.input
             /\ displayed' = shown.out
             /\ returned' = Return(<<>>)

\* a search, input or select event outside any other handler
PerformSearch(d) ==
    /\ pc \in {"awaitLoad", "idle", "failed"}
    /\ lastOp' = Call("performSearch", d)
    /\ performSearch(d)
    /\ UNCHANGED <<serverData, rawData, isLoading, inFlight, pc, searchEngine,
                   currentSort, selectedTags>>

\* the click on tag chip TagChips[t], up to the dispatch of filterChange:
\* UIComponents.toggleTag edits the selectedTags array in place
ToggleTag(t) ==
    /\ pc = "idle"
    /\ lastOp' = Call("toggleTag", t)
    /\ selectedTags' = toggleTag(selectedTags, TagChips[t])
    /\ activeFilters' = IF tagsShared
                        THEN [activeFilters EXCEPT !.tags = selectedTags']
                        ELSE activeFilters
    /\ returned' = Return(<<>>)
    /\ pc' = "filterChange"
    /\ UNCHANGED <<serverData, rawData, processedData, isLoading, inFlight,
                   currentResults, searchEngine, currentSort, displayed, tagsShared>>

\* the filterChange listener: performSearch(e.detail)
FilterChange(d) ==
    /\ pc = "filterChange"
    /\ lastOp' = Call("filterChange", d)
    /\ performSearch(d)
    /\ pc' = "idle"
    /\ UNCHANGED <<serverData, rawData, isLoading, inFlight, searchEngine,
                   currentSort, selectedTags>>

\* NSocialApp.refreshResults through displayResults
refreshResults(sortBy) ==
    LET r == sortResults(currentResults, sortBy)
    IN  /\ currentResults' = r.input
        /\ displayed' = r.out
        /\ returned' = Return(<<>>)

\* the change listener of the sort select
SortChange(sortBy) ==
    /\ pc = "idle"
    /\ lastOp' = Call("sortChange", sortBy)
    /\ currentSort' = sortBy
    /\ refreshResults(sortBy)
    /\ UNCHANGED <<serverData, rawData, processedData, isLoading, inFlight,
                   activeFilters, pc, searchEngine, selectedTags, tagsShared>>

\* NSocialApp.setView
SetView ==
    /\ pc = "idle"
    /\ lastOp' = Call("setView", 0)
    /\ refreshResults(currentSort)
    /\ UNCHANGED <<serverData, rawData, processedData, isLoading, inFlight,
                   activeFilters, pc, searchEngine, currentSort, selectedTags,
                   tagsShared>>

\* NSocialApp.clearAllFilters
ClearAllFilters ==
    /\ pc = "idle"
    /\ lastOp' = Call("clearAllFilters", 0)
    /\ selectedTags' = <<>>
    /\ tagsShared' = FALSE
    /\ activeFilters' = mergeFilters(resetFilters(activeFilters), <<>>)
    /\ LET r == applyFilters(processedData[1], activeFilters')
           shown == sortResults(r.out, currentSort)
       IN  /\ processedData' = <<r.data>>
           /\ currentResults' = shown.input
           /\ displayed' = shown.out
    /\ returned' = Return(<<>>)
    /\ UNCHANGED <<serverData, rawData, isLoading, inFlight, pc, searchEngine,
                   currentSort>>

NextApp ==
    \/ FetchSucceed
    \/ FetchFail
    \/ InitResume
    \/ InitCatch
    \/ \E d \in 1..Len(DomInputs) : PerformSearch(d)
    \/ \E t \in 1..Len(TagChips) : ToggleTag(t)
    \/ \E d \in 1..Len(DomInputs) : FilterChange(d)
    \/ \E sortBy \in SortInputs : SortChange(sortBy)
    \/ SetView
    \/ ClearAllFilters

SpecApp == InitApp /\ [][NextApp]_vars

\* ------------------------------------------- pure-function specification
\* the methods that read nothing but their arguments, called on a fresh
\* loader and engine
LocationInputs == <<
    <<"S", "F", " ">>, <<"B", "a", "y", " ", "A", "r", "e", "a">>, <<" ", "s", "f">>, <<"S", "i", "l", "i", "c", "o", "n", " ", "V", "a", "l", "l", "e", "y">>, <<"N", "Y", "C">>, <<"N", "e", "w", " ", "Y", "o", "r", "k", " ", "C", "i", "t", "y">>,
    <<"L", "A">>, <<"u", "s">>, <<"U", "S", "A">>, <<"B", "e", "r", "l", "i", "n", " ">>, <<" ", " ">>, <<"T", "o", "k", "y", "o">>, <<"c", "o", "n", "s", "t", "r", "u", "c", "t", "o", "r">> >>

StringInputs == <<
    <<>>, <<"a">>, <<"a", "b">>, <<"b", "a">>, <<"a", "b", "c">>, <<"A", "b", "c">>, <<"a", "b", "d">>, <<"d", "a", "t", "a">>, <<"d", "a", "t", "o">>, <<"d", "a", "t", "e">>,
    <<"k", "i", "t", "t", "e", "n">>, <<"s", "i", "t", "t", "i", "n", "g">> >>

\* raw records for the text search; the professional summary of w2 holds a
\* line feed between its two words
TextMembers == <<
    [username |-> <<"w", "1">>, name |-> <<"D", "a", "t", "a", " ", "B", "o">>, professional_summary |-> <<"s", "o", "l", "a", "n", "a", " ", "d", "e", "v">>],
    [username |-> <<"w", "2">>, professional_summary |-> <<"A", "I", "\n", "d", "a", "t", "a">>],
    [username |-> <<"w", "3">>, tags |-> <<<<"a", "b">>>>] >>

\* data arguments of applyTextSearch
TextData == <<
    processData(TextMembers),
    processData(<<TextMembers[3], TextMembers[1]>>),
    <<>> >>

\* searchTerm arguments of applyTextSearch
QueryInputs == <<
    <<>>, <<" ">>, <<"d", "a", "t", "a">>, <<"d", "a", "t", "o">>, <<"D", "A", "T", "O", " ", "b", "o">>, <<"d", "a", "t">>, <<"a", "b">>, <<"a", "b", "c", "d">>,
    <<"s", "o", "l", "a", "m", "a">>, <<"d", "a", "t", "a", " ", " ", "d", "a", "t", "a">>, <<"w", "3", " ", "a", "b">>, <<"x", "y", "z", "w">> >>

\* member arguments of calculateRelevanceScore
ScoreMembers == processData(SampleMembers)

\* searchTerms arguments of calculateRelevanceScore
TermInputs == <<
    <<>>, <<<<"a", "i">>>>, <<<<"a", "i">>, <<"a", "i">>>>, <<<<"d", "a", "t", "a">>>>, <<<<"s", "f">>>>, <<<<"w", "e", "b", "3">>>>,
    <<<<"d", "a", "t", "a">>, <<"a", "i">>, <<"s", "f">>>>, <<<<"z", "z">>>>, <<<<"b">>, <<"a">>>> >>

InitPure ==
    /\ serverData = <<>>
    /\ rawData = <<>>
    /\ processedData = <<>>
    /\ isLoading = FALSE
    /\ activeFilters = initialFilters
    /\ currentResults = <<>>
    /\ returned = Return(<<>>)
    /\ lastOp = Call("new", 0)
    /\ inFlight = 0
    /\ NoApp

\* DataLoader.normalizeLocation(LocationInputs[i])
NormalizeLocation(i) ==
    /\ lastOp' = Call("normalizeLocation", i)
    /\ returned' = Return(normalizeLocation([location |-> LocationInputs[i]], "location"))
    /\ UNCHANGED <<inFlight, appVars>>
    /\ UNCHANGED <<serverData, rawData, processedData, isLoading, activeFilters,
                   currentResults>>

\* SearchEngine.levenshteinDistance(StringInputs[i], StringInputs[j])
LevenshteinDistance(i, j) ==
    /\ lastOp' = Call("levenshteinDistance", <<i, j>>)
    /\ returned' = Return(levenshteinDistance(StringInputs[i], StringInputs[j]))
    /\ UNCHANGED <<inFlight, appVars>>
    /\ UNCHANGED <<serverData, rawData, processedData, isLoading, activeFilters,
                   currentResults>>

\* SearchEngine.stringSimilarity(StringInputs[i], StringInputs[j])
StringSimilarity(i, j) ==
    /\ lastOp' = Call("stringSimilarity", <<i, j>>)
    /\ returned' = Return(stringSimilarity(StringInputs[i], StringInputs[j]))
    /\ UNCHANGED <<inFlight, appVars>>
    /\ UNCHANGED <<serverData, rawData, processedData, isLoading, activeFilters,
                   currentResults>>

\* SearchEngine.applyTextSearch(TextData[d], QueryInputs[q])
ApplyTextSearch(d, q) ==
    /\ lastOp' = Call("applyTextSearch", <<d, q>>)
    /\ returned' = Return(applyTextSearch(TextData[d], QueryInputs[q]).out)
    /\ UNCHANGED <<inFlight, appVars>>
    /\ UNCHANGED <<serverData, rawData, processedData, isLoading, activeFilters,
                   currentResults>>

\* SearchEngine.calculateRelevanceScore(ScoreMembers[m], TermInputs[q])
CalculateRelevanceScore(m, q) ==
    /\ lastOp' = Call("calculateRelevanceScore", <<m, q>>)
    /\ returned' = Return(calculateRelevanceScore(ScoreMembers[m], TermInputs[q]))
    /\ UNCHANGED <<inFlight, appVars>>
    /\ UNCHANGED <<serverData, rawData, processedData, isLoading, activeFilters,
                   currentResults>>

\* raw location values of the records of a document; <<>> stands for a
\* record without location
OptionLocations == << <<>>, <<"S", "F", " ">>, <<" ", " ">>, <<"B", "e", "r", "l", "i", "n">>, <<"s", "f">>, <<"b", "e", "r", "l", "i", "n", " ">> >>

\* the document whose two records have the locations OptionLocations[i] and
\* OptionLocations[j]
OptionRecords(i, j) ==
    LET record(name, k) ==
            IF OptionLocations[k] = <<>> THEN [username |-> name]
            ELSE [username |-> name, location |-> OptionLocations[k]]
    IN  << record(<<"o", "1">>, i), record(<<"o", "2">>, j) >>

\* DataLoader.processData followed by DataLoader.getFilterOptions on the
\* document OptionRecords(i, j)
GetFilterOptions(i, j) ==
    /\ lastOp' = Call("getFilterOptions", <<i, j>>)
    /\ LET pd == processData(OptionRecords(i, j))
       IN  returned' = Return([data |-> pd, options |-> getFilterOptions(<<pd>>)[1]])
    /\ UNCHANGED <<inFlight, appVars>>
    /\ UNCHANGED <<serverData, rawData, processedData, isLoading, activeFilters,
                   currentResults>>

\* normalized profiles that differ in their tags, location and keywords
SimilarityProfiles ==
    processData(<<
        [username |-> <<"p", "1">>, tags |-> <<<<"a", "i">>, <<"A", "I">>>>, professional_summary |-> <<"d", "a", "t", "a">>],
        [username |-> <<"p", "2">>, tags |-> <<<<"a", "i">>>>, location |-> <<"S", "F">>],
        [username |-> <<"p", "3">>, tags |-> <<<<"w", "e", "b", "3">>, <<"a", "i">>>>, location |-> <<"s", "f">>,
         professional_summary |-> <<"a", "i", " ", "d", "a", "t", "a">>],
        [username |-> <<"p", "4">>, tags |-> <<<<"n", "f", "t">>, <<"n", "f", "t">>, <<"w", "e", "b", "3">>>>,
         professional_summary |-> <<"d", "a", "t", "a">>],
        [username |-> <<"p", "5">>, tags |-> <<<<"W", "e", "b", "3">>>>, location |-> <<"L", "A">>] >>)

\* SearchEngine.calculateProfileSimilarity(SimilarityProfiles[a], SimilarityProfiles[b])
CalculateProfileSimilarity(a, b) ==
    /\ lastOp' = Call("calculateProfileSimilarity", <<a, b>>)
    /\ returned' = Return(calculateProfileSimilarity(SimilarityProfiles[a],
                                                     SimilarityProfiles[b]))
    /\ UNCHANGED <<inFlight, appVars>>
    /\ UNCHANGED <<serverData, rawData, processedData, isLoading, activeFilters,
                   currentResults>>

NextPure ==
    \/ \E i, j \in 1..Len(OptionLocations) : GetFilterOptions(i, j)
    \/ \E a, b \in 1..Len(SimilarityProfiles) : CalculateProfileSimilarity(a, b)
    \/ \E i \in 1..Len(LocationInputs) : NormalizeLocation(i)
    \/ \E i, j \in 1..Len(StringInputs) : LevenshteinDistance(i, j)
    \/ \E i, j \in 1..Len(StringInputs) : StringSimilarity(i, j)
    \/ \E d \in 1..Len(TextData), q \in 1..Len(QueryInputs) : ApplyTextSearch(d, q)
    \/ \E m \in 1..Len(ScoreMembers), q \in 1..Len(TermInputs) :
          CalculateRelevanceScore(m, q)

SpecPure == InitPure /\ [][NextPure]_vars

\* ================================================================== claims
Loaded == processedData # <<>>
Usernames(list) == {list[i].username : i \in 1..Len(list)}
AllEmpty(f) ==
    f.search = <<>> /\ f.location = <<>> /\ f.profession = <<>> /\ f.tags = <<>>
HasScore(member) ==
    "relevanceScore" \in DOMAIN member \/ "similarityScore" \in DOMAIN member

\* after is held with every field of partial written over it and every other
\* field as it was
MergedInto(held, partial, after) ==
    /\ DOMAIN after = (DOMAIN held) \cup (DOMAIN partial)
    /\ \A f \in DOMAIN partial : after[f] = partial[f]
    /\ \A f \in (DOMAIN held) \ (DOMAIN partial) : after[f] = held[f]

\* C1 as stated: every call of search merges its argument into the held
\* filters field by field, the fields of the argument overwriting (tags
\* replaced, not unioned), the other fields kept.
C1_SearchAlwaysMerges ==
    [][lastOp'.op = "search"
          => MergedInto(activeFilters, SearchInputs[lastOp'.arg], activeFilters')]_vars

\* C1 amended: with data loaded, search merges its argument into the held
\* filters field by field (argument fields overwrite, tags replaced, other
\* fields kept); with no data loaded search leaves the held filters as they are.
C1_SearchMergesWhenLoaded ==
    [][lastOp'.op = "search"
          => IF Loaded
             THEN MergedInto(activeFilters, SearchInputs[lastOp'.arg], activeFilters')
             ELSE activeFilters' = activeFilters]_vars

\* a search that wrote search and tags over held filters whose location and
\* profession it kept
C1_Witness ==
    /\ Loaded
    /\ lastOp.op = "search"
    /\ DOMAIN SearchInputs[lastOp.arg] = {"search", "tags"}
    /\ activeFilters.search = <<>> /\ activeFilters.tags = <<>>
    /\ activeFilters.location # <<>> /\ activeFilters.profession # <<>>

\* C2: with data loaded, clearFilters returns the whole collection in its
\* original order, and so does a search({}) that follows it at once.
C2_ClearFiltersReturnsAll ==
    [][/\ (lastOp'.op = "clearFilters" /\ Loaded)
             => returned' = Return(processedData[1])
       /\ (lastOp.op = "clearFilters" /\ lastOp'.op = "search" /\ lastOp'.arg = 1
           /\ Loaded)
             => returned' = Return(processedData[1])]_vars

\* clearFilters has returned a collection of two members and dropped the
\* filters held before it
C2_Witness ==
    /\ Loaded
    /\ lastOp.op = "clearFilters"
    /\ Len(processedData[1]) >= 2
    /\ returned.value = processedData[1]
    /\ currentResults = processedData[1]
    /\ "cohort" \notin DOMAIN activeFilters

\* C3 as stated: the usernames search(spec) returns are among those the
\* search({}) before it returned.
C3_SubsetOfEmptySearch ==
    [][(lastOp.op = "search" /\ lastOp.arg = 1 /\ lastOp'.op = "search" /\ Loaded)
          => Usernames(returned'.value) \subseteq Usernames(returned.value)]_vars

\* C3 amended: the usernames search(spec) returns are among the usernames of
\* the collection, and the collection is what search({}) returns when no
\* filter is held.
C3_SubsetOfCollection ==
    [][(lastOp'.op = "search" /\ Loaded)
          => /\ Usernames(returned'.value) \subseteq Usernames(processedData[1])
             /\ (lastOp'.arg = 1 /\ AllEmpty(activeFilters))
                   => returned'.value = processedData[1]]_vars

\* a search has returned some but not all members of the collection
C3_Witness ==
    /\ Loaded
    /\ lastOp.op = "search"
    /\ Len(returned.value) > 0
    /\ Usernames(returned.value) # Usernames(processedData[1])
    /\ Usernames(returned.value) \subseteq Usernames(processedData[1])

\* C4: a second search with the same argument returns the same list (same
\* profiles, order and relevance scores) and leaves the held filters and
\* the stored results as the first left them.
C4_SearchIdempotent ==
    [][(lastOp.op = "search" /\ lastOp'.op = "search" /\ lastOp'.arg = lastOp.arg)
          => /\ returned' = returned
             /\ activeFilters' = activeFilters
             /\ currentResults' = currentResults]_vars

\* a text and tags search has returned scored profiles; the state is the
\* one its repetition returns to
C4_Witness ==
    /\ Loaded
    /\ lastOp.op = "search"
    /\ lastOp.arg \in {2, 5}
    /\ activeFilters.search # <<>> /\ activeFilters.tags # <<>>
    /\ \E i \in 1..Len(returned.value) :
           /\ "relevanceScore" \in DOMAIN returned.value[i]
           /\ returned.value[i].relevanceScore > 0
    /\ currentResults = returned.value

\* merged filter objects the engine can hold
FilterUniverse ==
    [search : {<<>>, <<"D", "a", "t", "a">>, <<"A", "/", "B">>},
     location : {<<>>, <<"s", "a", "n", " ", "f", "r", "a", "n", "c", "i", "s", "c", "o">>},
     profession : {<<>>, <<"a", "i">>},
     tags : {<<>>, <<<<"a", "i">>>>, <<<<"n", "f", "t">>>>}]

\* b is a with field f, empty in a, populated
Populates(a, b, f) ==
    /\ a[f] = <<>>
    /\ b[f] # <<>>
    /\ \A g \in (DOMAIN a) \ {f} : b[g] = a[g]

\* C5: on a fixed collection, populating one empty field of the merged
\* filters gives a result with no more entries and no new username; with
\* every field empty the result is the whole collection.
C5_FiltersNarrow ==
    (Loaded /\ lastOp.op = "fetchSucceed") =>
        /\ \A a \in FilterUniverse, b \in FilterUniverse, f \in DOMAIN clearedFilters :
              Populates(a, b, f) =>
                  LET ra == applyFilters(processedData[1], a).out
                      rb == applyFilters(processedData[1], b).out
                  IN  /\ Len(rb) <= Len(ra)
                      /\ Usernames(rb) \subseteq Usernames(ra)
        /\ \A a \in FilterUniverse :
              AllEmpty(a) => applyFilters(processedData[1], a).out = processedData[1]

\* a collection on which populating a field drops some profiles and keeps
\* others, and populating a second field drops some more
C5_Witness ==
    /\ Loaded
    /\ lastOp.op = "fetchSucceed"
    /\ \E a \in FilterUniverse, b \in FilterUniverse, f \in DOMAIN clearedFilters :
          /\ Populates(a, b, f)
          /\ ~AllEmpty(a)
          /\ Len(applyFilters(processedData[1], b).out) > 0
          /\ Len(applyFilters(processedData[1], b).out)
                < Len(applyFilters(processedData[1], a).out)

\* C6: with no data loaded, search, findSimilarMembers, getTrendingTags and
\* getSearchSuggestions return an empty result and throw nothing.
C6_NoDataEmptyResult ==
    (~Loaded /\ lastOp.op \in {"search", "findSimilarMembers", "getTrendingTags",
                               "getSearchSuggestions"})
        => ~returned.threw /\ Len(returned.value) = 0

\* getSearchSuggestions was called with two characters or more before any
\* data was loaded
C6_Witness ==
    /\ ~Loaded
    /\ lastOp.op = "getSearchSuggestions"
    /\ PartialInputs[lastOp.arg] # Null
    /\ Len(PartialInputs[lastOp.arg]) >= 2
    /\ returned = Return(<<>>)

\* C7: findSimilarMembers(target, count) returns at most count entries and
\* none with the username of target.
C7_SimilarExcludesTarget ==
    lastOp.op = "findSimilarMembers" =>
        /\ Len(returned.value) <= lastOp.arg[2]
        /\ TargetInputs[lastOp.arg[1]] # <<>> =>
              \A i \in 1..Len(returned.value) :
                  returned.value[i].username # TargetInputs[lastOp.arg[1]][1].username

\* findSimilarMembers returned one of the two profiles of a collection that
\* holds the target
C7_Witness ==
    /\ Loaded
    /\ lastOp.op = "findSimilarMembers"
    /\ lastOp.arg[2] = 1
    /\ TargetInputs[lastOp.arg[1]] # <<>>
    /\ Len(processedData[1]) = 2
    /\ TargetInputs[lastOp.arg[1]][1].username \in Usernames(processedData[1])
    /\ Len(returned.value) = 1

\* C8 as stated: the similarity score of every pair of profiles is a
\* well-defined number, a ratio over an empty larger list contributing 0.
C8_ScoreWellDefined ==
    lastOp.op = "findSimilarMembers" =>
        \A i \in 1..Len(returned.value) : ~returned.value[i].similarityScore.nan

\* C9 as stated: with only a single search term t held, every profile whose
\* professional summary contains t is in the result of search with a
\* relevance score of at least 5, and of at least 15 when its name contains
\* t as well.
C9_SummaryMatchIsFound ==
    (/\ Loaded
     /\ lastOp.op = "search"
     /\ activeFilters.search # <<>>
     /\ Len(searchTerms(activeFilters.search)) = 1
     /\ activeFilters.location = <<>>
     /\ activeFilters.profession = <<>>
     /\ activeFilters.tags = <<>>)
        => \A m \in 1..Len(processedData[1]) :
              LET member == processedData[1][m]
                  t == searchTerms(activeFilters.search)[1]
              IN  Includes(ToLowerCase(member.professional_summary), t) =>
                      \E i \in 1..Len(returned.value) :
                          /\ returned.value[i].username = member.username
                          /\ returned.value[i].relevanceScore >= 5
                          /\ Includes(ToLowerCase(member.name), t)
                                => returned.value[i].relevanceScore >= 15

\* C10: search, clearFilters, findSimilarMembers, sortResults and
\* getTrendingTags leave the normalized collection as it was (same
\* profiles, order and field values), and no profile of the collection
\* carries a relevance or similarity score.
C10_CollectionImmutable ==
    [][lastOp'.op \in {"search", "clearFilters", "findSimilarMembers", "sortResults",
                       "getTrendingTags"}
          => /\ processedData' = processedData
             /\ Loaded => \A i \in 1..Len(processedData'[1]) :
                              ~HasScore(processedData'[1][i])]_vars

\* findSimilarMembers returned copies carrying a similarity score while the
\* profiles of the collection carry none
C10_Witness ==
    /\ Loaded
    /\ lastOp.op = "findSimilarMembers"
    /\ Len(returned.value) > 0
    /\ \A i \in 1..Len(returned.value) : "similarityScore" \in DOMAIN returned.value[i]
    /\ \A i \in 1..Len(processedData[1]) : ~HasScore(processedData[1][i])

\* the array sortResults was last called with, as the call left it
SortedInput == IF lastOp.arg[1] = "processedData" THEN processedData[1] ELSE currentResults

\* out holds the elements of input, each as often as input does
IsPermutation(out, input) ==
    /\ Len(out) = Len(input)
    /\ \E p \in IndexOrders(Len(input)) : \A k \in 1..Len(input) : out[k] = input[p[k]]

\* C11: sortResults leaves its input sequence as it was and returns a
\* permutation of it; for the criterion 'name' and for an unknown criterion
\* the output is in display-name order, a missing name taken as ''.
C11_SortLeavesInput ==
    [][lastOp'.op = "sortResults"
          => /\ processedData' = processedData
             /\ currentResults' = currentResults
             /\ LET input == IF lastOp'.arg[1] = "processedData"
                             THEN processedData[1] ELSE currentResults
                    out == returned'.value
                IN  /\ IsPermutation(out, input)
                    /\ lastOp'.arg[2] # "recent" =>
                          \A i, j \in 1..Len(out) :
                              i < j => ~localeLess(NameOf(out[j]), NameOf(out[i]))]_vars

\* sortResults by name returned two profiles in the opposite order of its
\* input, which still has its own order
C11_Witness ==
    /\ lastOp.op = "sortResults"
    /\ lastOp.arg[2] # "recent"
    /\ Len(SortedInput) = 2
    /\ returned.value = <<SortedInput[2], SortedInput[1]>>
    /\ localeLess(NameOf(SortedInput[2]), NameOf(SortedInput[1]))

\* occurrences of tag over the tag lists of the collection
Occurrences(tag) ==
    Cardinality({o \in 1..Len(AllTags(processedData[1])) :
                    AllTags(processedData[1])[o] = tag})

\* C12 as stated: getTrendingTags(limit) returns at most limit entries
\* {tag, count}, count the number of occurrences of that exact tag over all
\* tag lists, in non-increasing order of count, no omitted tag counting more
\* than a returned one.
C12_TrendingTagsCounted ==
    (Loaded /\ lastOp.op = "getTrendingTags") =>
        LET out == returned.value
        IN  /\ Len(out) <= lastOp.arg
            /\ \A i \in 1..Len(out) :
                  /\ out[i].count.type = "number"
                  /\ out[i].count.num = Occurrences(out[i].tag)
            /\ \A i, j \in 1..Len(out) :
                  i < j => Occurrences(out[i].tag) >= Occurrences(out[j].tag)
            /\ \A tag \in Range(AllTags(processedData[1])) :
                  (\A i \in 1..Len(out) : out[i].tag # tag)
                      => \A i \in 1..Len(out) : Occurrences(tag) <= Occurrences(out[i].tag)

\* the string v has a character that is not white space
NonBlank(v) == \E i \in 1..Len(v) : ~IsSpace(v[i])

\* the mapping got holds exactly the fields of held whose names are in keys
HoldsFields(got, held, keys) ==
    /\ DOMAIN got = keys
    /\ \A k \in keys : got[k] = held[k]

\* C13 as stated: getActiveFilters returns exactly the fields of the held
\* filters that are a non-empty string or a non-empty tag list; clearFilters
\* leaves every held field empty and getActiveFilters then returns the
\* empty mapping.
C13_ActiveAreNonEmpty ==
    [][/\ lastOp'.op = "getActiveFilters"
             => HoldsFields(returned'.value, activeFilters,
                            {k \in DOMAIN activeFilters : activeFilters[k] # <<>>})
       /\ lastOp'.op = "clearFilters"
             => \A k \in DOMAIN activeFilters' : activeFilters'[k] = <<>>
       /\ (lastOp.op = "clearFilters" /\ lastOp'.op = "getActiveFilters")
             => DOMAIN returned'.value = {}]_vars

\* C13 amended: getActiveFilters returns exactly the fields of the held
\* filters that are a string with a character other than white space or a
\* non-empty tag list; clearFilters leaves every held field empty and
\* getActiveFilters then returns the empty mapping.
C13_ActiveAreNonBlank ==
    [][/\ lastOp'.op = "getActiveFilters"
             => HoldsFields(returned'.value, activeFilters,
                            {k \in DOMAIN activeFilters :
                                IF k = "tags" THEN activeFilters[k] # <<>>
                                ELSE NonBlank(activeFilters[k])})
       /\ lastOp'.op = "clearFilters"
             => \A k \in DOMAIN activeFilters' : activeFilters'[k] = <<>>
       /\ (lastOp.op = "clearFilters" /\ lastOp'.op = "getActiveFilters")
             => DOMAIN returned'.value = {}]_vars

\* getActiveFilters returned the held tags and location and left out a held
\* search string of white space
C13_Witness ==
    /\ lastOp.op = "getActiveFilters"
    /\ activeFilters.search # <<>>
    /\ ~NonBlank(activeFilters.search)
    /\ activeFilters.tags # <<>>
    /\ DOMAIN returned.value = {"tags", "location", "profession"}
    /\ returned.value.tags = activeFilters.tags

\* the normalized locations and the tags of the loaded collection
KnownLocations ==
    IF Loaded THEN {processedData[1][m].location_normalized : m \in 1..Len(processedData[1])}
    ELSE {}
KnownTags == IF Loaded THEN Range(AllTags(processedData[1])) ELSE {}

C15_BareRecordNormalized ==
    Loaded =>
        \A m \in 1..Len(rawData[1]) :
            DOMAIN rawData[1][m] = {"username"} =>
                LET profile == processedData[1][m]
                IN  /\ profile.username = rawData[1][m].username
                    /\ profile.name = <<>>
                    /\ profile.location = <<>>
                    /\ profile.professional_summary = <<>>
                    /\ profile.personal_summary = <<>>
                    /\ profile.philosophical_summary = <<>>
                    /\ profile.tags = <<>>
                    /\ profile.professional_keywords = <<>>
                    /\ profile.location_normalized = Null
                    /\ DOMAIN profile.social_links = {}
                    /\ ~profile.has_location
                    /\ ~profile.has_professional_summary
                    /\ ~profile.has_personal_summary
                    /\ ~profile.has_social_links

\* a load has normalized a record with no optional field next to one that
\* has a location, a summary and a social link
C15_Witness ==
    /\ Loaded
    /\ lastOp.op = "fetchSucceed"
    /\ \E m, n \in 1..Len(rawData[1]) :
          /\ DOMAIN rawData[1][m] = {"username"}
          /\ processedData[1][m].location_normalized = Null
          /\ processedData[1][n].has_location
          /\ processedData[1][n].has_social_links
          /\ processedData[1][n].location_normalized # Null

\* the canonical city of an alias key of the table, the key itself otherwise
Canonical(key) ==
    IF \E i \in 1..Len(locationMappings) : locationMappings[i][1] = key
    THEN locationMappings[CHOOSE i \in 1..Len(locationMappings) :
                              locationMappings[i][1] = key][2]
    ELSE key

\* C16 as stated: normalizeLocation lowercases and trims its input and
\* applies the alias table: inputs that come to aliases of one city give
\* that city ("SF " and "Bay Area" give "san francisco"), and an input that
\* comes to no alias key is returned lowercased and trimmed.
C16_LocationNormalized ==
    lastOp.op = "normalizeLocation" =>
        /\ returned.value = Canonical(Trim(ToLowerCase(LocationInputs[lastOp.arg])))
        /\ LocationInputs[lastOp.arg] \in {<<"S", "F", " ">>, <<"B", "a", "y", " ", "A", "r", "e", "a">>}
              => returned.value = <<"s", "a", "n", " ", "f", "r", "a", "n", "c", "i", "s", "c", "o">>

\* the recurrence of the edit distance with insertion, deletion and
\* substitution at cost 1
RECURSIVE EditDistance(_, _)
EditDistance(a, b) ==
    IF a = <<>> THEN Len(b)
    ELSE IF b = <<>> THEN Len(a)
    ELSE IF Head(a) = Head(b) THEN EditDistance(Tail(a), Tail(b))
    ELSE 1 + Min2(EditDistance(Tail(a), Tail(b)),
                  Min2(EditDistance(Tail(a), b), EditDistance(a, Tail(b))))

\* C18: levenshteinDistance(a, b) is the edit distance of a and b, and
\* stringSimilarity(a, b) is (L - distance) / L for L the length of the
\* longer string: 1 for equal strings, 4/7 for "kitten" and "sitting".
C18_EditDistance ==
    /\ lastOp.op = "levenshteinDistance" =>
          LET a == StringInputs[lastOp.arg[1]]
              b == StringInputs[lastOp.arg[2]]
          IN  /\ returned.value = EditDistance(a, b)
              /\ (a = <<"k", "i", "t", "t", "e", "n">> /\ b = <<"s", "i", "t", "t", "i", "n", "g">>) => returned.value = 3
    /\ lastOp.op = "stringSimilarity" =>
          LET a == StringInputs[lastOp.arg[1]]
              b == StringInputs[lastOp.arg[2]]
              L == Max2(Len(a), Len(b))
          IN  /\ ~returned.value.nan
              /\ a = b => returned.value = Frac(1, 1)
              /\ L > 0 => returned.value.num * L
                              = (L - EditDistance(a, b)) * returned.value.den
              /\ (a = <<"k", "i", "t", "t", "e", "n">> /\ b = <<"s", "i", "t", "t", "i", "n", "g">>) => returned.value = Frac(4, 7)

\* stringSimilarity of "kitten" and "sitting" returned 4/7
C18_Witness ==
    /\ lastOp.op = "stringSimilarity"
    /\ StringInputs[lastOp.arg[1]] = <<"k", "i", "t", "t", "e", "n">>
    /\ StringInputs[lastOp.arg[2]] = <<"s", "i", "t", "t", "i", "n", "g">>
    /\ returned.value = Frac(4, 7)

\* the pieces of s between runs of white space
RECURSIVE WordsFrom(_, _, _)
WordsFrom(s, pos, cur) ==
    IF pos > Len(s) THEN IF cur = <<>> THEN <<>> ELSE <<cur>>
    ELSE IF IsSpace(s[pos])
         THEN (IF cur = <<>> THEN <<>> ELSE <<cur>>) \o WordsFrom(s, pos + 1, <<>>)
         ELSE WordsFrom(s, pos + 1, Append(cur, s[pos]))
Words(s) == WordsFrom(s, 1, <<>>)

\* the similarity of a and b is strictly greater than 0.7
Similar(a, b) ==
    IF a = b THEN TRUE
    ELSE 10 * (Max2(Len(a), Len(b)) - EditDistance(a, b)) > 7 * Max2(Len(a), Len(b))

\* the profile survives the text search for searchTerm as C17 states it
Survives(member, searchTerm) ==
    \A t \in Range(Words(ToLowerCase(searchTerm))) :
        \/ Includes(member.searchable_text, t)
        \/ /\ Len(t) >= 4
           /\ \E w \in Range(Words(member.searchable_text)) : Len(w) >= 3 /\ Similar(w, t)

\* C17 as stated: the search string is split on white space into lowercase
\* terms, and a profile survives the text search exactly when every term is
\* a substring of its searchable text or has 4 characters or more and a
\* similarity above 0.7 to a white-space-delimited word of 3 characters or
\* more of it; the survivors keep their order.
C17_TextSearchSurvivors ==
    lastOp.op = "applyTextSearch" =>
        LET data == TextData[lastOp.arg[1]]
            kept == Filter(data, LAMBDA member : Survives(member, QueryInputs[lastOp.arg[2]]))
        IN  /\ Len(returned.value) = Len(kept)
            /\ \A i \in 1..Len(kept) : returned.value[i].username = kept[i].username

\* the field of the member contains term, whatever the case of the field
FieldContains(member, field, term) ==
    /\ field \in DOMAIN member
    /\ Includes(ToLowerCase(member[field]), term)

\* the points one term earns on the member
TermPoints(member, term) ==
      (IF FieldContains(member, "name", term) THEN 10 ELSE 0)
    + (IF FieldContains(member, "professional_summary", term) THEN 5 ELSE 0)
    + (IF \E u \in 1..Len(member.tags) : Includes(ToLowerCase(member.tags[u]), term)
       THEN 5 ELSE 0)
    + (IF FieldContains(member, "personal_summary", term) THEN 2 ELSE 0)
    + (IF FieldContains(member, "location", term) THEN 3 ELSE 0)

\* the points of the first k terms
RECURSIVE PointsOf(_, _, _)
PointsOf(member, terms, k) ==
    IF k = 0 THEN 0 ELSE PointsOf(member, terms, k - 1) + TermPoints(member, terms[k])

\* C19: the relevance score is the sum over the search terms, a repeated
\* term counting each time, of 10 for a match in the name, 5 in the
\* professional summary, 5 in some tag, 2 in the personal summary and 3 in
\* the location, with no cap; the text search attaches that score to each
\* survivor.
C19_RelevanceScoreSum ==
    /\ lastOp.op = "calculateRelevanceScore" =>
          returned.value = PointsOf(ScoreMembers[lastOp.arg[1]], TermInputs[lastOp.arg[2]],
                                    Len(TermInputs[lastOp.arg[2]]))
    /\ (lastOp.op = "applyTextSearch" /\ Trim(QueryInputs[lastOp.arg[2]]) # <<>>) =>
          LET terms == searchTerms(QueryInputs[lastOp.arg[2]])
          IN  \A i \in 1..Len(returned.value) :
                  returned.value[i].relevanceScore
                      = PointsOf(returned.value[i], terms, Len(terms))

\* the term "ai" given twice scored 24 on a profile that has it in the
\* professional summary, a tag and the personal summary
C19_Witness ==
    /\ lastOp.op = "calculateRelevanceScore"
    /\ TermInputs[lastOp.arg[2]] = <<<<"a", "i">>, <<"a", "i">>>>
    /\ returned.value = 24

\* tag lists a search may hold
TagFilterInputs ==
    {<<<<"a", "i">>>>, <<<<"A", "I">>>>, <<<<"w", "e", "b">>>>, <<<<"n", "f", "t">>, <<"z", "z">>>>, <<<<"W", "e", "b", "3", "x">>>>, <<<<"z", "z">>>>}

\* some tag of the member contains some tag of the filter, whatever the case
TagKept(member, tags) ==
    \E t \in 1..Len(tags), u \in 1..Len(member.tags) :
        Includes(ToLowerCase(member.tags[u]), ToLowerCase(tags[t]))

\* C20: with a non-empty tags filter held, search keeps a profile exactly
\* when some tag of the profile contains some filter tag whatever the case;
\* a profile without tags is never kept.
C20_TagsFilterKeeps ==
    /\ (Loaded /\ lastOp.op = "fetchSucceed") =>
          \A tags \in TagFilterInputs :
              applyFilters(processedData[1], [clearedFilters EXCEPT !.tags = tags]).out
                  = Filter(processedData[1], LAMBDA member : TagKept(member, tags))
    /\ (/\ Loaded
        /\ lastOp.op = "search"
        /\ activeFilters.tags # <<>>
        /\ activeFilters.search = <<>>
        /\ activeFilters.location = <<>>
        /\ activeFilters.profession = <<>>) =>
          /\ returned.value
                = Filter(processedData[1], LAMBDA member : TagKept(member, activeFilters.tags))
          /\ \A i \in 1..Len(returned.value) : returned.value[i].tags # <<>>

\* a search by tags kept a profile and dropped the profile without tags
C20_Witness ==
    /\ Loaded
    /\ lastOp.op = "search"
    /\ activeFilters.tags # <<>>
    /\ activeFilters.search = <<>>
    /\ activeFilters.location = <<>>
    /\ activeFilters.profession = <<>>
    /\ Len(returned.value) = 1
    /\ \E m \in 1..Len(processedData[1]) :
          /\ processedData[1][m].tags = <<>>
          /\ processedData[1][m].username # returned.value[1].username


\* location values a search may hold
LocationFilterInputs ==
    {<<"s", "a", "n", " ", "f", "r", "a", "n", "c", "i", "s", "c", "o">>, <<"s", "a", "n">>, <<"S", "a", "n", " ", "F", "r", "a", "n", "c", "i", "s", "c", "o">>, <<"s", "a", "n", " ", "f", "r", "a", "n", "c", "i", "s", "c", "o", " ">>, <<"n", "u", "l", "l">>, <<"s", "f">>}

\* C21: with a non-empty location filter held, search keeps a profile exactly
\* when its location_normalized equals the filter value; a profile whose
\* location_normalized is null is never kept.
C21_LocationFilterExact ==
    /\ (Loaded /\ lastOp.op = "fetchSucceed") =>
          \A location \in LocationFilterInputs :
              LET out == applyFilters(processedData[1],
                             [clearedFilters EXCEPT !.location = location]).out
              IN  /\ out = Filter(processedData[1], LAMBDA member :
                                  member.location_normalized = location)
                  /\ \A i \in 1..Len(out) : out[i].location_normalized # Null
    /\ (Loaded /\ lastOp.op = "search" /\ activeFilters.location # <<>>) =>
          /\ Usernames(returned.value)
                = Usernames(Filter(
                      applyFilters(processedData[1],
                          [activeFilters EXCEPT !.location = <<>>]).out,
                      LAMBDA member :
                          member.location_normalized = activeFilters.location))
          /\ \A i \in 1..Len(returned.value) :
                returned.value[i].location_normalized # Null

\* a search with a location held kept a profile of that location while the
\* collection holds a profile without location
C21_Witness ==
    /\ Loaded
    /\ lastOp.op = "search"
    /\ activeFilters.location = <<"s", "a", "n", " ", "f", "r", "a", "n", "c", "i", "s", "c", "o">>
    /\ Len(returned.value) = 1
    /\ returned.value[1].location_normalized = <<"s", "a", "n", " ", "f", "r", "a", "n", "c", "i", "s", "c", "o">>
    /\ \E m \in 1..Len(processedData[1]) :
          processedData[1][m].location_normalized = Null

\* the candidates of findSimilarMembers for the last call, scored
Candidates ==
    LET targetMember == SimilarTargets[lastOp.arg[1]][1]
        data == processedData[1]
        idx == KeptIndices(Len(data), similarCandidates(data, targetMember))
    IN  [j \in 1..Len(idx) |->
            [username |-> data[idx[j]].username,
             similarityScore |-> calculateProfileSimilarity(targetMember, data[idx[j]])]]

\* C22 as stated: the list findSimilarMembers returns is in non-increasing
\* order of similarityScore, and no candidate left out by the truncation to
\* count has a strictly higher similarityScore than a returned one, also on
\* collections whose profiles have empty tag or keyword lists.
C22_SimilarSortedAndTop ==
    (Loaded /\ lastOp.op = "findSimilarMembers" /\ SimilarTargets[lastOp.arg[1]] # <<>>) =>
        /\ \A i, j \in 1..Len(returned.value) :
              i < j => ~Greater(returned.value[j].similarityScore,
                                returned.value[i].similarityScore)
        /\ \A c \in 1..Len(Candidates) :
              Candidates[c].username \notin Usernames(returned.value) =>
                  \A i \in 1..Len(returned.value) :
                      ~Greater(Candidates[c].similarityScore,
                               returned.value[i].similarityScore)

\* the lowercase, space-joined concatenation of the text fields and tags
\* stored on a normalized profile, empty values skipped
StoredText(profile) ==
    LET names == <<"name", "username", "location", "professional_summary",
                   "personal_summary", "philosophical_summary">>
        values == [i \in 1..Len(names) |->
                      IF names[i] \in DOMAIN profile THEN profile[names[i]] ELSE <<>>]
        parts == Filter(values \o profile.tags, LAMBDA v : v # <<>>)
    IN  ToLowerCase(Join(parts))

\* C23 as stated: the searchable_text of every normalized profile is the
\* lowercase, space-joined concatenation of the name, username, location,
\* summaries and tags stored on that profile, absent fields skipped.
C23_SearchableTextOfStored ==
    Loaded => \A m \in 1..Len(processedData[1]) :
                  processedData[1][m].searchable_text = StoredText(processedData[1][m])

\* the profile passes every populated field of the filters f
Keeps(member, f) ==
    /\ Trim(f.search) # <<>> => textMatch(member, searchTerms(f.search))
    /\ f.location # <<>> => member.location_normalized = f.location
    /\ f.profession # <<>> =>
          Includes(ToLowerCase(member.professional_summary), ToLowerCase(f.profession))
    /\ f.tags # <<>> => TagKept(member, f.tags)

\* a result entry without the score a text search attaches to it
Unscored(member) == [k \in (DOMAIN member) \ {"relevanceScore"} |-> member[k]]

\* C24: after a search or clearFilters call made with data loaded, the
\* stored currentResults is the list of the profiles of the normalized
\* collection that pass the held filters, in collection order: the stored
\* results and the held filters do not disagree.
C24_ResultsMatchHeldFilters ==
    (Loaded /\ lastOp.op \in {"search", "clearFilters"}) =>
        /\ [i \in 1..Len(currentResults) |-> Unscored(currentResults[i])]
              = Filter(processedData[1], LAMBDA member : Keeps(member, activeFilters))
        /\ currentResults = applyFilters(processedData[1], activeFilters).out

\* a search that merged into filters held from an earlier call stored some
\* but not all profiles
C24_Witness ==
    /\ Loaded
    /\ lastOp.op = "search"
    /\ lastOp.arg = 5
    /\ activeFilters.location # <<>>
    /\ activeFilters.profession # <<>>
    /\ activeFilters.tags # <<>>
    /\ Len(currentResults) = 1
    /\ Len(processedData[1]) = 2

\* C26: at most one fetch is in flight at a time: a loadData call made while
\* isLoading is true returns without starting a fetch and without changing
\* rawData or processedData, and isLoading is false once the load in flight
\* has finished, whether it succeeded or failed.
C26_SingleFetchInFlight ==
    [][/\ inFlight' <= 1
       /\ (lastOp'.op = "loadData" /\ isLoading) =>
              /\ returned' = Return(<<>>)
              /\ UNCHANGED <<inFlight, isLoading, rawData, processedData>>
       /\ lastOp'.op \in {"fetchSucceed", "fetchFail"} =>
              ~isLoading' /\ inFlight' = 0]_vars

\* loadData was called while the reload of a loaded collection was in
\* flight and returned at once
C26_Witness ==
    /\ lastOp.op = "loadData"
    /\ returned = Return(<<>>)
    /\ isLoading
    /\ inFlight = 1
    /\ Loaded

\* C25 as stated: a change of the sort criterion or of the view mode shows
\* the profiles displayed just before, possibly in another order, in every
\* state after load, also directly after the initial load and before any
\* search has run.
C25_RefreshKeepsDisplayed ==
    [][lastOp'.op \in {"sortChange", "setView"} =>
          /\ Len(displayed') = Len(displayed)
          /\ Usernames(displayed') = Usernames(displayed)]_vars

\* C27: when the fetch fails, loadData throws and leaves processedData as it
\* was; the application then never constructs a search engine, and every
\* later performSearch returns without running a query or changing anything.
C27_FailedLoadNoEngine ==
    [][/\ lastOp'.op = "fetchFail" =>
              returned'.threw /\ processedData' = processedData
       /\ pc' = "failed" => ~searchEngine' /\ processedData' = <<>>
       /\ pc = "failed" => pc' = "failed"
       /\ (pc' = "failed" /\ lastOp'.op = "performSearch") =>
              /\ ~returned'.threw
              /\ UNCHANGED <<processedData, activeFilters, currentResults,
                             displayed, selectedTags, tagsShared>>]_vars

\* a search for 'Data' was asked for after the load of a non-empty document
\* had failed
C27_Witness ==
    /\ pc = "failed"
    /\ lastOp = Call("performSearch", 2)
    /\ Len(serverData) > 0
    /\ displayed = <<>>

\* C28 as stated: the location_normalized of every normalized profile is
\* null or a non-empty string, and null exactly when has_location is false;
\* the location list of getFilterOptions has one entry for every distinct
\* location_normalized of a profile whose has_location is true.
C28_LocationNullOrNonEmpty ==
    lastOp.op = "getFilterOptions" =>
        LET data == returned.value.data
            locations == returned.value.options.locations
        IN  /\ \A m \in 1..Len(data) :
                  /\ data[m].location_normalized # <<>>
                  /\ data[m].location_normalized = Null <=> ~data[m].has_location
            /\ Range(locations)
                  = {data[m].location_normalized : m \in {k \in 1..Len(data) : data[k].has_location}}
            /\ \A a, b \in 1..Len(locations) : locations[a] = locations[b] => a = b


\* C29 as stated: calculateProfileSimilarity(a, b) equals
\* calculateProfileSimilarity(b, a) for any two normalized profiles, also
\* when tag lists hold duplicates or tags that differ only in case (two
\* scores that are both NaN are taken as equal here).
C29_SimilaritySymmetric ==
    lastOp.op = "calculateProfileSimilarity" =>
        returned.value = calculateProfileSimilarity(SimilarityProfiles[lastOp.arg[2]],
                                                    SimilarityProfiles[lastOp.arg[1]])

\* C30 as stated: the held tags filter changes only inside search or
\* clearFilters; no UI action, toggling a tag chip in particular, alters the
\* held filters before the engine's search is invoked.
C30_HeldTagsChangeInSearchOnly ==
    [][activeFilters'.tags # activeFilters.tags =>
          lastOp'.op \in {"performSearch", "filterChange", "clearAllFilters"}]_vars
====
